---- MODULE Spec2Model ----
(***************************************************************************)
(* A model of the PayPay integration backend (example/javascript-backend/  *)
(* src/app.js): the canonicalization of request parameters, the RSA-SHA1   *)
(* signature and its verification, the chunked private-key encryption of   *)
(* biz_content, and the handlers that compose them.                        *)
(*                                                                         *)
(* JavaScript strings are sequences of UTF-16 code units.  A string is     *)
(* modelled as a sequence of atoms: a code unit [c |-> n], or the base64   *)
(* text of binary data that the model keeps symbolic, [b64 |-> bytes], or  *)
(* the percent-encoding of such a text, [pct |-> atom].  Every tagged      *)
(* value is a record of one field whose name is the tag.                   *)
(* RSA and SHA-1 are symbolic and perfect:                                 *)
(* a signature records the key pair and the digest it was made from, a     *)
(* ciphertext block records the key pair and the chunk, and a digest       *)
(* records the bytes that were hashed.                                     *)
(***************************************************************************)
EXTENDS Integers, Sequences, FiniteSets, TLC

(***************************************************************************)
(* Strings                                                                 *)
(***************************************************************************)

\* Printable ASCII characters in code order: U+0020 and U+0021, then U+0023 to
\* U+005B without the apostrophe, then U+005D to U+007E without the grave accent.
AsciiLow == " !"
AsciiMid == "#$%&()*+,-./0123456789:;<=>?@ABCDEFGHIJKLMNOPQRSTUVWXYZ["
AsciiHigh == "]^_abcdefghijklmnopqrstuvwxyz{|}~"

Index(table, ch) == CHOOSE i \in 1..Len(table) : SubSeq(table, i, i) = ch
In(table, ch) == \E i \in 1..Len(table) : SubSeq(table, i, i) = ch

\* The UTF-16 code unit of a one-character ASCII string.
Code(ch) ==
  IF In(AsciiLow, ch) THEN 31 + Index(AsciiLow, ch)
  ELSE IF In(AsciiMid, ch)
       THEN (IF Index(AsciiMid, ch) <= 4 THEN 34 ELSE 35) + Index(AsciiMid, ch)
       ELSE (IF Index(AsciiHigh, ch) <= 3 THEN 92 ELSE 93) + Index(AsciiHigh, ch)

\* A code-unit atom.
Ch(c) == [c |-> c]

IsCh(a) == DOMAIN a = {"c"}

\* The JavaScript string written as the ASCII literal s.
Str(s) == [i \in 1..Len(s) |-> Ch(Code(SubSeq(s, i, i)))]

RECURSIVE Flatten(_)
\* The concatenation of a sequence of strings.
Flatten(ss) == IF ss = <<>> THEN <<>> ELSE Head(ss) \o Flatten(Tail(ss))

\* The string comparison of JavaScript, a < b: lexicographic on UTF-16 code units.
RECURSIVE StrLess(_, _)
StrLess(a, b) ==
  IF b = <<>> THEN FALSE
  ELSE IF a = <<>> THEN TRUE
  ELSE IF Head(a).c # Head(b).c THEN Head(a).c < Head(b).c
  ELSE StrLess(Tail(a), Tail(b))

(***************************************************************************)
(* JavaScript values and objects                                           *)
(***************************************************************************)

StringValue(s) == [string |-> s]
NumberValue(n) == [number |-> n]
Undefined == [undefined |-> 0]

BoolValue(b) == [boolean |-> b]
ObjectValue(o) == [object |-> o]
NaN == [nan |-> 0]

IsString(x) == DOMAIN x = {"string"}
IsNumber(x) == DOMAIN x = {"number"}
IsObject(x) == DOMAIN x = {"object"}

RECURSIVE Digits(_)
\* The decimal digits of a natural number, as a string.
Digits(n) == IF n < 10 THEN <<Ch(48 + n)>> ELSE Digits(n \div 10) \o <<Ch(48 + (n % 10))>>

\* What ToString gives for the values that are not strings or numbers.
Text ==
  [undefined |-> Str("undefined"),
   NaN |-> Str("NaN"),
   true |-> Str("true"),
   false |-> Str("false"),
   object |-> Str("[object Object]")]

\* ToString, as applied by a template literal `${x}`.
JsToString(x) ==
  CASE IsString(x) -> x.string
    [] IsNumber(x) -> Digits(x.number)
    [] DOMAIN x = {"nan"} -> Text.NaN
    [] DOMAIN x = {"boolean"} -> (IF x.boolean THEN Text.true ELSE Text.false)
    [] DOMAIN x = {"object"} -> Text.object
    [] OTHER -> Text.undefined

\* An object is the sequence of its own properties in insertion order.
ObjectKeys(o) == [i \in 1..Len(o) |-> o[i].name]

Has(o, name) == \E i \in 1..Len(o) : o[i].name = name

\* o[name]
Get(o, name) ==
  IF Has(o, name) THEN o[CHOOSE i \in 1..Len(o) : o[i].name = name].value ELSE Undefined

\* o[name] = value: an existing property keeps its place, a new one is appended.
Put(o, name, value) ==
  IF Has(o, name)
  THEN [i \in 1..Len(o) |-> IF o[i].name = name THEN [name |-> name, value |-> value] ELSE o[i]]
  ELSE Append(o, [name |-> name, value |-> value])

\* delete o[name]
Delete(o, name) == SelectSeq(o, LAMBDA p : p.name # name)

\* The array left as it is: a sort that was forgotten.
ArrayUnsorted(a) == a

\* Array.prototype.sort() with the default comparator, on an array of strings:
\* ascending in the order of StrLess.
RECURSIVE ArraySort(_)
ArraySort(a) ==
  IF a = <<>> THEN <<>>
  ELSE LET rest == ArraySort(Tail(a))
           x == Head(a)
           n == Cardinality({i \in 1..Len(rest) : ~StrLess(x, rest[i])})
       IN SubSeq(rest, 1, n) \o <<x>> \o SubSeq(rest, n + 1, Len(rest))

\* Array.prototype.join(sep) on an array of strings.
RECURSIVE Join(_, _)
Join(parts, sep) ==
  IF parts = <<>> THEN <<>>
  ELSE IF Len(parts) = 1 THEN Head(parts)
  ELSE Head(parts) \o sep \o Join(Tail(parts), sep)

(***************************************************************************)
(* Results of a call: a returned value or a thrown error.                  *)
(***************************************************************************)

Ok(x) == [ok |-> x]
Err(message) == [err |-> message]
IsOk(r) == DOMAIN r = {"ok"}
IsErr(r) == DOMAIN r = {"err"}

(***************************************************************************)
(* Key material.  A PEM text is its BEGIN line, its END line and its body; *)
(* a body is an RSA key of a key pair (kind "private" or "public", with    *)
(* the bit length of the modulus) or does not parse (kind "garbage").      *)
(***************************************************************************)

Pem(begin, end, kind, pair, bits) ==
  [begin |-> begin, end |-> end, body |-> [kind |-> kind, pair |-> pair, bits |-> bits]]

\* forge.pki.privateKeyFromPem: a PKCS#8 or a PKCS#1 block
privateKeyFromPem(key) ==
  IF key.begin \in {"PRIVATE KEY", "RSA PRIVATE KEY"} /\ key.end = key.begin
     /\ key.body.kind = "private"
  THEN Ok(key.body)
  ELSE Err("Invalid PEM formatted message.")

\* forge.pki.publicKeyFromPem: a SubjectPublicKeyInfo or a PKCS#1 block
publicKeyFromPem(key) ==
  IF key.begin \in {"PUBLIC KEY", "RSA PUBLIC KEY"} /\ key.end = key.begin
     /\ key.body.kind = "public"
  THEN Ok(key.body)
  ELSE Err("Invalid PEM formatted message.")

validatePemKeyAlwaysTrue(key, type) == Ok(TRUE)

\* A validation that looks for the delimiters and does not parse the body.
validatePemKeyHeadersOnly(key, type) ==
  IF key.begin # type \/ key.end # type
  THEN Err("Failed to parse " \o type)
  ELSE Ok(TRUE)

\* validatePemKey(key, type): true, or the error its catch block rethrows.
validatePemKey(key, type) ==
  IF key.begin # type \/ key.end # type
  THEN Err("Failed to parse " \o type)
  ELSE IF type = "PRIVATE KEY"
       THEN (IF IsOk(privateKeyFromPem(key)) THEN Ok(TRUE) ELSE Err("Failed to parse " \o type))
       ELSE (IF IsOk(publicKeyFromPem(key)) THEN Ok(TRUE) ELSE Err("Failed to parse " \o type))

(***************************************************************************)
(* Symbolic cryptography                                                   *)
(***************************************************************************)

\* The SHA-1 digest of the UTF-8 bytes of a string (md.update(s, "utf8")).
Sha1OfNothing(s) == [sha1 |-> <<>>]

Sha1(s) == [sha1 |-> s]

\* privateKeyObj.sign(md): the RSASSA-PKCS1-v1_5 signature, as binary data.
RsaSign(privateKeyObj, md) == <<[sig |-> [pair |-> privateKeyObj.pair, md |-> md]]>>

\* forge.util.encode64 and Buffer.toString("base64"): the empty text for no bytes.
encode64(bytes) == IF bytes = <<>> THEN <<>> ELSE <<[b64 |-> bytes]>>

\* forge.util.decode64 on a string: the bytes of a base64 text; any other text
\* decodes to bytes that are no signature.
decode64(text) ==
  IF Len(text) = 1 /\ DOMAIN text[1] = {"b64"} THEN text[1].b64
  ELSE IF text = <<>> THEN <<>>
  ELSE <<[raw |-> text]>>

RsaVerifyIgnoringDigest(publicKeyObj, digest, signature) ==
  IF Len(signature) = 1 /\ DOMAIN signature[1] = {"sig"}
     /\ signature[1].sig.pair = publicKeyObj.pair
  THEN {Ok(TRUE)}
  ELSE {Ok(FALSE), Err("Encryption block is invalid.")}

\* publicKey.verify(digest, signature): the outcomes the library can produce.
\* A signature made with the matching private key verifies exactly when the
\* digests agree; any other bytes fail the PKCS#1 decoding, which throws, or
\* are rejected.
RsaVerify(publicKeyObj, digest, signature) ==
  IF Len(signature) = 1 /\ DOMAIN signature[1] = {"sig"}
     /\ signature[1].sig.pair = publicKeyObj.pair
  THEN {Ok(signature[1].sig.md = digest)}
  ELSE {Ok(FALSE), Err("Encryption block is invalid.")}

(***************************************************************************)
(* Canonicalization and signature                                          *)
(***************************************************************************)

\* The literals of the canonicalization.
SignName == Str("sign")
SignTypeName == Str("sign_type")
EqualsSign == Str("=")
Ampersand == Str("&")

\* `${key}=${key}`: the name in the place of the value.
PairOfNames(params, key) == key \o EqualsSign \o key

\* `${key}=${params[key]}`
Pair(params, key) == key \o EqualsSign \o JsToString(Get(params, key))

\* A filter that drops sign and keeps sign_type.
StringToSignFilteringSignOnly(params) ==
  LET sortedKeys == ArraySort(SelectSeq(ObjectKeys(params), LAMBDA key : key # SignName))
  IN Join([i \in 1..Len(sortedKeys) |-> Pair(params, sortedKeys[i])], Ampersand)

\* The string to sign that generateSignature builds.
StringToSign(params) ==
  LET sortedKeys == ArraySort(SelectSeq(ObjectKeys(params),
                      LAMBDA key : key # SignName /\ key # SignTypeName))
  IN Join([i \in 1..Len(sortedKeys) |-> Pair(params, sortedKeys[i])], Ampersand)

generateSignatureUnvalidated(params, privateKey) ==
  IF IsErr(privateKeyFromPem(privateKey))
  THEN Err("Failed to generate signature")
  ELSE Ok(encode64(RsaSign(privateKeyFromPem(privateKey).ok, Sha1(StringToSign(params)))))

\* generateSignature(params, privateKey): the base64 text of the signature, or
\* the error that its catch block throws for every error of its try block.
generateSignature(params, privateKey) ==
  IF IsErr(validatePemKey(privateKey, "PRIVATE KEY")) \/ IsErr(privateKeyFromPem(privateKey))
  THEN Err("Failed to generate signature")
  ELSE Ok(encode64(RsaSign(privateKeyFromPem(privateKey).ok, Sha1(StringToSign(params)))))

\* A handler that deletes sign and keeps sign_type.
NotificationStringToSignKeepingSignType(notification) ==
  LET params == Delete(notification, SignName)
      sortedKeys == ArraySort(ObjectKeys(params))
  IN Join([i \in 1..Len(sortedKeys) |-> Pair(params, sortedKeys[i])], Ampersand)

\* A handler that does not sort the names.
NotificationStringToSignUnsorted(notification) ==
  LET params == Delete(Delete(notification, SignName), SignTypeName)
      sortedKeys == ObjectKeys(params)
  IN Join([i \in 1..Len(sortedKeys) |-> Pair(params, sortedKeys[i])], Ampersand)

\* The string to sign that the notification handler builds.
NotificationStringToSign(notification) ==
  LET params == Delete(Delete(notification, SignName), SignTypeName)
      sortedKeys == ArraySort(ObjectKeys(params))
  IN Join([i \in 1..Len(sortedKeys) |-> Pair(params, sortedKeys[i])], Ampersand)

\* A verification whose result does not depend on its arguments.
VerifySignatureByChance(notification, sign, publicKey) == {Ok(TRUE), Ok(FALSE)}

\* The try block of the notification handler, with notification.sign as sign:
\* the outcomes isValid can have, or the error that is caught.
VerifySignature(notification, sign, publicKey) ==
  IF IsErr(validatePemKey(publicKey, "PUBLIC KEY")) THEN {validatePemKey(publicKey, "PUBLIC KEY")}
  ELSE IF IsErr(publicKeyFromPem(publicKey)) THEN {publicKeyFromPem(publicKey)}
  ELSE IF ~IsString(sign) THEN {Err("input.replace is not a function")}
  ELSE RsaVerify(publicKeyFromPem(publicKey).ok,
                 Sha1(NotificationStringToSign(notification)),
                 decode64(sign.string))

(***************************************************************************)
(* Chunked encryption of biz_content                                       *)
(***************************************************************************)

\* The UTF-8 bytes that the code unit at position i of s contributes: those of
\* its code point, or of the code point of the surrogate pair it leads, and none
\* for the second unit of a pair.
UnitBytes(s, i) ==
  LET u == s[i].c IN
    IF u < 128 THEN <<u>>
    ELSE IF u < 2048 THEN <<192 + (u \div 64), 128 + (u % 64)>>
    ELSE IF u \in 55296..56319 /\ i < Len(s)
      THEN LET p == 65536 + (u - 55296) * 1024 + (s[i + 1].c - 56320)
           IN <<240 + (p \div 262144), 128 + ((p \div 4096) % 64),
                128 + ((p \div 64) % 64), 128 + (p % 64)>>
    ELSE IF u \in 56320..57343 /\ i > 1 THEN <<>>
    ELSE <<224 + (u \div 4096), 128 + ((u \div 64) % 64), 128 + (u % 64)>>

RECURSIVE Utf8Range(_, _, _)
\* The bytes of the code units at positions lo..hi.
Utf8Range(s, lo, hi) ==
  IF lo > hi THEN <<>>
  ELSE IF lo = hi THEN UnitBytes(s, lo)
  ELSE Utf8Range(s, lo, (lo + hi) \div 2) \o Utf8Range(s, (lo + hi) \div 2 + 1, hi)

Latin1(s) == [i \in 1..Len(s) |-> s[i].c % 256]

\* Buffer.from(s, "utf8") on a well-formed string of code units: the bytes.
Utf8(s) == Utf8Range(s, 1, Len(s))

\* const chunkSize = 117
chunkSize == 117

SliceFromStart(buffer, start, end) ==
  SubSeq(buffer, 1, IF end - start < Len(buffer) THEN end - start ELSE Len(buffer))

\* buffer.slice(start, end), with 0 <= start <= end
Slice(buffer, start, end) ==
  SubSeq(buffer, start + 1, IF end < Len(buffer) THEN end ELSE Len(buffer))

\* crypto.privateEncrypt({key, padding: RSA_PKCS1_PADDING}, chunk): one block of
\* the size of the modulus; it throws when the key is no private key and when the
\* chunk is longer than the modulus less the 11 bytes of padding.
privateEncrypt(key, chunk) ==
  IF IsErr(privateKeyFromPem(key)) THEN Err("error:1E08010C:DECODER routines::unsupported")
  ELSE IF Len(chunk) > (key.body.bits \div 8) - 11
       THEN Err("error:0200006E:rsa routines::data too large for key size")
       ELSE Ok([enc |-> [pair |-> key.body.pair, bits |-> key.body.bits, chunk |-> chunk]])

\* A loop that also runs at offset = buffer.length.
LoopContinuesAtEnd(offset, buffer) == offset <= Len(buffer)

\* The loop condition, offset < buffer.length.
LoopContinues(offset, buffer) == offset < Len(buffer)

RECURSIVE EncryptLoop(_, _, _, _)
\* The for loop, from the given offset: the encrypted chunks, or the error thrown.
EncryptLoop(buffer, privateKey, offset, encryptedChunks) ==
  IF ~LoopContinues(offset, buffer) THEN Ok(encryptedChunks)
  ELSE LET encrypted == privateEncrypt(privateKey, Slice(buffer, offset, offset + chunkSize))
       IN IF IsErr(encrypted) THEN encrypted
          ELSE EncryptLoop(buffer, privateKey, offset + chunkSize,
                           Append(encryptedChunks, encrypted.ok))

\* encryptBizContentWithPrivateKey(bizContent, privateKey): the base64 text of
\* the concatenated blocks, or the error thrown.
encryptBizContentWithPrivateKey(bizContent, privateKey) ==
  LET encryptedChunks == EncryptLoop(Utf8(bizContent), privateKey, 0, <<>>)
  IN IF IsErr(encryptedChunks) THEN encryptedChunks ELSE Ok(encode64(encryptedChunks.ok))

(***************************************************************************)
(* Numbers, JSON and URL encoding.  The numbers of the model are the       *)
(* natural numbers and NaN.                                                *)
(***************************************************************************)

\* Whether a value is truthy, as tested by `!x` and `x || y`.
Truthy(x) ==
  CASE IsString(x) -> x.string # <<>>
    [] IsNumber(x) -> x.number # 0
    [] DOMAIN x = {"boolean"} -> x.boolean
    [] DOMAIN x = {"object"} -> TRUE
    [] OTHER -> FALSE

IsDigit(a) == a.c \in 48..57

RECURSIVE DigitsValue(_)
\* The number that a string of decimal digits denotes.
DigitsValue(s) == IF s = <<>> THEN 0 ELSE DigitsValue(SubSeq(s, 1, Len(s) - 1)) * 10 + (s[Len(s)].c - 48)

\* parseFloat, on numbers and on the strings of the model: decimal digits,
\* decimal digits followed by a fraction of zeros, and texts that start with
\* no digit.
parseFloat(x) ==
  IF IsNumber(x) THEN x
  ELSE IF ~IsString(x) \/ x.string = <<>> \/ ~IsDigit(x.string[1]) THEN NaN
  ELSE LET s == x.string
           n == IF \E i \in 1..Len(s) : ~IsDigit(s[i])
                THEN (CHOOSE i \in 1..Len(s) : ~IsDigit(s[i]) /\ \A j \in 1..(i - 1) : IsDigit(s[j])) - 1
                ELSE Len(s)
       IN NumberValue(DigitsValue(SubSeq(s, 1, n)))

DecimalZeros == Str(".00")

\* amount.toFixed(2)
toFixed2(x) == IF IsNumber(x) THEN Digits(x.number) \o DecimalZeros ELSE Text.NaN

Quote == <<Ch(34)>>
Backslash == <<Ch(92)>>

\* The text of a JSON string: quotes and backslashes are escaped.
JsonQuote(s) ==
  Quote \o Flatten([i \in 1..Len(s) |->
                      IF s[i] = Ch(34) \/ s[i] = Ch(92) THEN Backslash \o <<s[i]>> ELSE <<s[i]>>])
        \o Quote

\* The punctuation of JSON.stringify and of toISOString.
Punct ==
  [comma |-> Str(","),
   colon |-> Str(":"),
   openBrace |-> Str("{"),
   closeBrace |-> Str("}"),
   dash |-> Str("-"),
   plus |-> Str("+"),
   T |-> Str("T"),
   dot |-> Str("."),
   Z |-> Str("Z")]

RECURSIVE JsonStringify(_)
\* JSON.stringify(x): a property whose value is undefined is left out.
JsonStringify(x) ==
  CASE IsString(x) -> JsonQuote(x.string)
    [] IsObject(x) ->
         LET present == SelectSeq(x.object, LAMBDA p : p.value # Undefined)
         IN Punct.openBrace
            \o Join([i \in 1..Len(present) |->
                       JsonQuote(present[i].name) \o Punct.colon \o JsonStringify(present[i].value)],
                    Punct.comma)
            \o Punct.closeBrace
    [] DOMAIN x = {"nan"} -> Str("null")
    [] OTHER -> JsToString(x)

HexDigits == Str("0123456789ABCDEF")
Percent == Str("%")

\* %XX for a byte.
PercentByte(b) == Percent \o <<HexDigits[(b \div 16) + 1], HexDigits[(b % 16) + 1]>>

\* The characters that encodeURIComponent leaves as they are:
\* A-Z a-z 0-9 - _ . ! ~ * ' ( )
UriUnreserved == (48..57) \cup (65..90) \cup (97..122) \cup {45, 95, 46, 33, 126, 42, 39, 40, 41}

\* The characters that the encoder of qs.stringify leaves as they are:
\* A-Z a-z 0-9 - . _ ~
QsUnreserved == (48..57) \cup (65..90) \cup (97..122) \cup {45, 46, 95, 126}

\* The percent-encoding of the atom at position i of s.  The encoding of a
\* symbolic base64 text stays symbolic: the text with its '+', '/' and '='
\* escaped.
PercentAtom(s, i, unreserved) ==
  IF IsCh(s[i])
  THEN IF s[i].c \in unreserved THEN <<s[i]>>
       ELSE LET bytes == UnitBytes(s, i)
            IN Flatten([j \in 1..Len(bytes) |-> PercentByte(bytes[j])])
  ELSE <<[pct |-> s[i]]>>

RECURSIVE PercentRange(_, _, _, _)
PercentRange(s, lo, hi, unreserved) ==
  IF lo > hi THEN <<>>
  ELSE IF lo = hi THEN PercentAtom(s, lo, unreserved)
  ELSE PercentRange(s, lo, (lo + hi) \div 2, unreserved)
       \o PercentRange(s, (lo + hi) \div 2 + 1, hi, unreserved)

\* encodeURIComponent(x)
encodeURIComponent(x) ==
  LET s == JsToString(x) IN StringValue(PercentRange(s, 1, Len(s), UriUnreserved))

\* qs.stringify(o), for an object of strings: name=value pairs joined with '&',
\* names and values percent-encoded.
qsStringify(o) ==
  Join([i \in 1..Len(o) |->
          PercentRange(o[i].name, 1, Len(o[i].name), QsUnreserved)
          \o EqualsSign
          \o PercentRange(JsToString(o[i].value), 1, Len(JsToString(o[i].value)), QsUnreserved)],
       Ampersand)

(***************************************************************************)
(* Nonce and timestamp                                                     *)
(***************************************************************************)

LowerHexDigits == Str("0123456789abcdef")

\* The bytes in hexadecimal, each without a leading zero.
generateRequestNoUnpadded(randomBytes) ==
  Flatten([i \in 1..Len(randomBytes) |->
             IF randomBytes[i] < 16 THEN <<LowerHexDigits[randomBytes[i] + 1]>>
             ELSE <<LowerHexDigits[(randomBytes[i] \div 16) + 1],
                    LowerHexDigits[(randomBytes[i] % 16) + 1]>>])

\* crypto.randomBytes(16).toString("hex"), for the bytes drawn
generateRequestNo(randomBytes) ==
  Flatten([i \in 1..Len(randomBytes) |->
             <<LowerHexDigits[(randomBytes[i] \div 16) + 1], LowerHexDigits[(randomBytes[i] % 16) + 1]>>])

\* n in decimal, padded with zeros to the given width.
Padded(n, width) ==
  LET d == Digits(n) IN [i \in 1..(width - Len(d)) |-> Ch(48)] \o d

\* The civil date of a day number (days since 1970-01-01), as Date computes it.
CivilFromDays(days) ==
  LET z == days + 719468
      era == z \div 146097
      doe == z - era * 146097
      yoe == (doe - doe \div 1460 + doe \div 36524 - doe \div 146096) \div 365
      doy == doe - (365 * yoe + yoe \div 4 - yoe \div 100)
      mp == (5 * doy + 2) \div 153
      d == doy - (153 * mp + 2) \div 5 + 1
      m == IF mp < 10 THEN mp + 3 ELSE mp - 9
      y == yoe + era * 400 + (IF m <= 2 THEN 1 ELSE 0)
  IN [year |-> y, month |-> m, day |-> d]


\* A clock reading is [day, ms]: the days since 1970-01-01 and the milliseconds
\* of the day, kept apart because of the width of the integers of the model.

\* new Date(now.getTime() + offset), for an offset of less than a day
AddMilliseconds(now, offset) ==
  [day |-> now.day + (now.ms + offset) \div 86400000, ms |-> (now.ms + offset) % 86400000]

\* Date.prototype.toISOString, for the years from 1970 on: YYYY-MM-DDTHH:mm:ss.sssZ,
\* and the year as + and six digits after 9999.
toISOString(date) ==
  LET civil == CivilFromDays(date.day)
      secs == date.ms \div 1000
  IN (IF civil.year <= 9999 THEN Padded(civil.year, 4) ELSE Punct.plus \o Padded(civil.year, 6))
     \o Punct.dash \o Padded(civil.month, 2) \o Punct.dash \o Padded(civil.day, 2)
     \o Punct.T \o Padded(secs \div 3600, 2) \o Punct.colon \o Padded((secs % 3600) \div 60, 2)
     \o Punct.colon \o Padded(secs % 60, 2) \o Punct.dot \o Padded(date.ms % 1000, 3) \o Punct.Z

\* String.prototype.replace("T", " "): the first T becomes a space.
ReplaceT(s) == [i \in 1..Len(s) |-> IF s[i] = Punct.T[1] /\ \A j \in 1..(i - 1) : s[j] # Punct.T[1]
                                     THEN Ch(32) ELSE s[i]]

\* The time in UTC, with no offset added.
generateTimestampUtc(now) == SubSeq(ReplaceT(toISOString(now)), 1, 19)

\* generateTimestamp(), for the clock reading now
generateTimestamp(now) ==
  LET offset == 1 * 60 * 60 * 1000
      gmtPlus1 == AddMilliseconds(now, offset)
  IN SubSeq(ReplaceT(toISOString(gmtPlus1)), 1, 19)

\* Date.now().toString(), for a clock reading between 1970-01-01T00:00:01Z and 2038
DateNowString(now) == Digits(now.day * 86400 + now.ms \div 1000) \o Padded(now.ms % 1000, 3)

(***************************************************************************)
(* The literals of the payment functions and of the routes                 *)
(***************************************************************************)

\* The property names of the source.
K ==
  [cashier_type |-> Str("cashier_type"),
   payer_ip |-> Str("payer_ip"),
   sale_product_code |-> Str("sale_product_code"),
   timeout_express |-> Str("timeout_express"),
   trade_info |-> Str("trade_info"),
   currency |-> Str("currency"),
   out_trade_no |-> Str("out_trade_no"),
   payee_identity |-> Str("payee_identity"),
   payee_identity_type |-> Str("payee_identity_type"),
   price |-> Str("price"),
   quantity |-> Str("quantity"),
   subject |-> Str("subject"),
   total_amount |-> Str("total_amount"),
   pay_method |-> Str("pay_method"),
   pay_product_code |-> Str("pay_product_code"),
   amount |-> Str("amount"),
   bank_code |-> Str("bank_code"),
   phone_num |-> Str("phone_num"),
   charset |-> Str("charset"),
   biz_content |-> Str("biz_content"),
   partner_id |-> Str("partner_id"),
   service |-> Str("service"),
   request_no |-> Str("request_no"),
   format |-> Str("format"),
   version |-> Str("version"),
   timestamp |-> Str("timestamp"),
   language |-> Str("language"),
   paymentMethod |-> Str("paymentMethod"),
   code |-> Str("code"),
   status |-> Str("status"),
   sub_msg |-> Str("sub_msg"),
   dynamic_link |-> Str("dynamic_link"),
   trade_token |-> Str("trade_token"),
   trade_no |-> Str("trade_no"),
   success |-> Str("success"),
   error |-> Str("error"),
   inner_trade_no |-> Str("inner_trade_no"),
   return_url |-> Str("return_url")]

\* The string literals of the source.
V ==
  [SDK |-> Str("SDK"),
   MulticaixaPayerIp |-> Str("123.25.68.9"),
   PayPayAppPayerIp |-> Str("102.140.67.101"),
   m15 |-> Str("15m"),
   AOA |-> Str("AOA"),
   one |-> Str("1"),
   n31 |-> Str("31"),
   MUL |-> Str("MUL"),
   UTF8 |-> Str("UTF-8"),
   instant_trade |-> Str("instant_trade"),
   JSON |-> Str("JSON"),
   RSA |-> Str("RSA"),
   v1_0 |-> Str("1.0"),
   pt |-> Str("pt"),
   Purchase |-> Str("Purchase"),
   MULTICAIXA_EXPRESS |-> Str("MULTICAIXA_EXPRESS"),
   S0001 |-> Str("S0001"),
   P |-> Str("P")]

\* The messages of the source.
M ==
  [OnlyMulticaixa |-> Str("This endpoint supports only MULTICAIXA_EXPRESS payments"),
   MissingCreateFields |-> Str("Missing required fields: total_amount and phone_num"),
   MissingAppField |-> Str("Missing required field: total_amount"),
   Falha |-> Str("Falha ao iniciar pagamento."),
   ApiError |-> Str("API error"),
   FailedToConnect |-> Str("Failed to connect to PayPay API"),
   ErrorPrefix |-> Str("Error: "),
   TypeError |-> Str("Cannot read properties of undefined"),
   TypeErrorPrefix |-> Str("TypeError: "),
   AxiosErrorPrefix |-> Str("AxiosError: "),
   RequestFailed |-> Str("Request failed"),
   NetworkError |-> Str("Network Error")]

Property(name, value) == [name |-> name, value |-> value]

(***************************************************************************)
(* The payment functions, step by step                                     *)
(***************************************************************************)

\* const bizContent = {...} of createMulticaixaPayment
MulticaixaBizContent(config, orderDetails) ==
  ObjectValue(<<
    Property(K.cashier_type, StringValue(V.SDK)),
    Property(K.payer_ip, StringValue(V.MulticaixaPayerIp)),
    Property(K.sale_product_code, StringValue(config.saleProductCode)),
    Property(K.timeout_express, StringValue(V.m15)),
    Property(K.trade_info, ObjectValue(<<
      Property(K.currency, StringValue(V.AOA)),
      Property(K.out_trade_no, orderDetails.outTradeNo),
      Property(K.payee_identity, StringValue(config.partnerId)),
      Property(K.payee_identity_type, StringValue(V.one)),
      Property(K.price, StringValue(toFixed2(orderDetails.amount))),
      Property(K.quantity, StringValue(V.one)),
      Property(K.subject, IF orderDetails.subject = Undefined THEN StringValue(V.Purchase)
                          ELSE orderDetails.subject),
      Property(K.total_amount, StringValue(toFixed2(orderDetails.amount)))>>)),
    Property(K.pay_method, ObjectValue(<<
      Property(K.pay_product_code, StringValue(V.n31)),
      Property(K.amount, StringValue(toFixed2(orderDetails.amount))),
      Property(K.bank_code, StringValue(V.MUL)),
      Property(K.phone_num, orderDetails.phoneNum)>>))>>)

\* const bizContent = {...} of createPayPayAppPayment; clientIp is not used
PayPayAppBizContent(config, orderDetails, clientIp) ==
  ObjectValue(<<
    Property(K.cashier_type, StringValue(V.SDK)),
    Property(K.payer_ip, StringValue(V.PayPayAppPayerIp)),
    Property(K.sale_product_code, StringValue(config.saleProductCode)),
    Property(K.timeout_express, StringValue(V.m15)),
    Property(K.trade_info, ObjectValue(<<
      Property(K.currency, StringValue(V.AOA)),
      Property(K.out_trade_no, orderDetails.outTradeNo),
      Property(K.payee_identity, StringValue(config.partnerId)),
      Property(K.payee_identity_type, StringValue(V.one)),
      Property(K.price, StringValue(toFixed2(orderDetails.amount))),
      Property(K.quantity, StringValue(V.one)),
      Property(K.subject, IF orderDetails.subject = Undefined THEN StringValue(V.Purchase)
                          ELSE orderDetails.subject),
      Property(K.total_amount, StringValue(toFixed2(orderDetails.amount)))>>))>>)

\* const params = {...}, the same in both payment functions
AssembleParamsEncoded(config, encryptedBizContent, randomBytes, now) ==
  <<Property(K.charset, encodeURIComponent(StringValue(V.UTF8))),
    Property(K.biz_content, encodeURIComponent(StringValue(encryptedBizContent))),
    Property(K.partner_id, encodeURIComponent(StringValue(config.partnerId))),
    Property(K.service, encodeURIComponent(StringValue(V.instant_trade))),
    Property(K.request_no, encodeURIComponent(StringValue(generateRequestNo(randomBytes)))),
    Property(K.format, encodeURIComponent(StringValue(V.JSON))),
    Property(SignTypeName, encodeURIComponent(StringValue(V.RSA))),
    Property(K.version, encodeURIComponent(StringValue(V.v1_0))),
    Property(K.timestamp, encodeURIComponent(StringValue(generateTimestamp(now)))),
    Property(K.language, encodeURIComponent(StringValue(V.pt)))>>

\* An envelope that carries the payment product code beside biz_content.
AssembleParamsWithPayMethod(config, encryptedBizContent, randomBytes, now) ==
  <<Property(K.charset, StringValue(V.UTF8)),
    Property(K.biz_content, StringValue(encryptedBizContent)),
    Property(K.partner_id, StringValue(config.partnerId)),
    Property(K.service, StringValue(V.instant_trade)),
    Property(K.request_no, StringValue(generateRequestNo(randomBytes))),
    Property(K.format, StringValue(V.JSON)),
    Property(SignTypeName, StringValue(V.RSA)),
    Property(K.version, StringValue(V.v1_0)),
    Property(K.timestamp, StringValue(generateTimestamp(now))),
    Property(K.language, StringValue(V.pt)),
    Property(K.pay_product_code, StringValue(V.n31))>>

\* const params = {...}
AssembleParams(config, encryptedBizContent, randomBytes, now) ==
  <<Property(K.charset, StringValue(V.UTF8)),
    Property(K.biz_content, StringValue(encryptedBizContent)),
    Property(K.partner_id, StringValue(config.partnerId)),
    Property(K.service, StringValue(V.instant_trade)),
    Property(K.request_no, StringValue(generateRequestNo(randomBytes))),
    Property(K.format, StringValue(V.JSON)),
    Property(SignTypeName, StringValue(V.RSA)),
    Property(K.version, StringValue(V.v1_0)),
    Property(K.timestamp, StringValue(generateTimestamp(now))),
    Property(K.language, StringValue(V.pt))>>

\* a.localeCompare(b) < 0, on names of lower-case letters and underscores, where
\* the collation orders the underscore before the letters and the letters
\* alphabetically.
LocaleLess(a, b) == StrLess(a, b)

RECURSIVE SortByLocale(_)
\* Array.prototype.sort((a, b) => a.localeCompare(b))
SortByLocale(a) ==
  IF a = <<>> THEN <<>>
  ELSE LET rest == SortByLocale(Tail(a))
           x == Head(a)
           n == Cardinality({i \in 1..Len(rest) : ~LocaleLess(x, rest[i])})
       IN SubSeq(rest, 1, n) \o <<x>> \o SubSeq(rest, n + 1, Len(rest))

EncodeParamsDroppingSign(params) ==
  LET keys == SortByLocale(ObjectKeys(Delete(params, SignName)))
  IN [i \in 1..Len(keys) |-> Property(keys[i], encodeURIComponent(Get(params, keys[i])))]

\* const encodedParams = {}; the forEach that fills it
EncodeParams(params) ==
  LET keys == SortByLocale(ObjectKeys(params))
  IN [i \in 1..Len(keys) |-> Property(keys[i], encodeURIComponent(Get(params, keys[i])))]

(***************************************************************************)
(* State                                                                   *)
(***************************************************************************)

VARIABLES
  cKeys,     \* canonicalization bench: the key pair in use, [priv, pub]
  cFields,   \* the field map under test, as an object
  cSigned,   \* what signing it produced: [fields, signStr, verifyStr, sig]
  cChecked,  \* what verifying produced: [fields, signStr, verifyStr, via, changed, valid]
  cPhase,    \* "input", "signed", "reordered", "mutated", "substituted" or "verified"
  eInput,    \* encryption bench: [bizContent, privateKey], the arguments
  eBuffer,   \* buffer
  eOffset,   \* offset
  eChunks,   \* encryptedChunks
  eCalls,    \* the number of calls of crypto.privateEncrypt so far
  eResult,   \* the value returned or the error thrown
  ePc,       \* "call", "loop", "returned" or "threw"
  config,    \* server: the configuration object
  requests,  \* the HTTP requests received, each with the locals of its handler
  running,   \* the request whose handler is executing, or 0 when the loop is idle
  inbox,     \* the clients: [arrivals, limit], the requests they can send and how many
  uCall,     \* utility bench: the function called and its arguments
  uResult,   \* the value returned or the error thrown
  uPc        \* "call", "returned" or "threw"

canonVars == <<cKeys, cFields, cSigned, cChecked, cPhase>>

encryptVars == <<eInput, eBuffer, eOffset, eChunks, eCalls, eResult, ePc>>

serverVars == <<config, requests, running, inbox>>

utilVars == <<uCall, uResult, uPc>>

vars == <<canonVars, encryptVars, serverVars, utilVars>>

(***************************************************************************)
(* The sign / verify bench: generateSignature and the verification of the  *)
(* notification handler applied to field maps drawn from bounded sets.     *)
(***************************************************************************)

\* The largest number of fields of a field map of the bench.
MaxFields == 2

\* Field names: plain ones, the two excluded ones, U+FF5E (one code unit) and
\* U+1F600 (the surrogate pair D83D DE00).
CanonNames ==
  {Str("a"), Str("b"), Str("sign"), Str("sign_type"), <<Ch(65374)>>, <<Ch(55357), Ch(56832)>>}

CanonValues ==
  {StringValue(Str("1")), NumberValue(1), StringValue(Str("x")), StringValue(Str("1&b=1"))}

\* The objects with at most MaxFields properties, in every insertion order.
Objects ==
  UNION {{o \in [1..n -> [name : CanonNames, value : CanonValues]] :
            \A i, j \in 1..n : i # j => o[i].name # o[j].name} : n \in 0..MaxFields}

PrivateKeyOf(pair) == Pem("PRIVATE KEY", "PRIVATE KEY", "private", pair, 1024)
PublicKeyOf(pair) == Pem("PUBLIC KEY", "PUBLIC KEY", "public", pair, 1024)

NoSigned == [fields |-> <<>>, signStr |-> <<>>, verifyStr |-> <<>>, sig |-> Err("none")]
NoChecked ==
  [fields |-> <<>>, signStr |-> <<>>, verifyStr |-> <<>>, via |-> "none",
   changed |-> <<>>, valid |-> Err("none")]

CanonStart ==
  /\ cKeys \in {[priv |-> PrivateKeyOf(p), pub |-> PublicKeyOf(1)] : p \in {1, 2}}
  /\ cFields \in Objects
  /\ cSigned = NoSigned
  /\ cChecked = NoChecked
  /\ cPhase = "input"

\* The bench at rest, for the specifications that do not use it.
CanonIdle ==
  /\ cKeys = [priv |-> PrivateKeyOf(1), pub |-> PublicKeyOf(1)]
  /\ cFields = <<>>
  /\ cSigned = NoSigned
  /\ cChecked = NoChecked
  /\ cPhase = "idle"

\* generateSignature(cFields, priv); the canonicalization of the handler is
\* applied to the same object.
CanonSign ==
  /\ cPhase = "input"
  /\ cSigned' = [fields |-> cFields,
                 signStr |-> StringToSign(cFields),
                 verifyStr |-> NotificationStringToSign(cFields),
                 sig |-> generateSignature(cFields, cKeys.priv)]
  /\ cPhase' = "signed"
  /\ UNCHANGED <<cKeys, cFields, cChecked, encryptVars, serverVars, utilVars>>

\* The same name-value pairs, inserted in another order.
CanonReorder ==
  /\ cPhase = "signed"
  /\ \E p \in [1..Len(cFields) -> 1..Len(cFields)] :
       /\ \A i, j \in 1..Len(cFields) : i # j => p[i] # p[j]
       /\ \E i \in 1..Len(cFields) : p[i] # i
       /\ cFields' = [i \in 1..Len(cFields) |-> cFields[p[i]]]
  /\ cPhase' = "reordered"
  /\ UNCHANGED <<cKeys, cSigned, cChecked, encryptVars, serverVars, utilVars>>

\* The value of one field is changed after signing.
CanonMutate ==
  /\ cPhase = "signed"
  /\ \E i \in 1..Len(cFields) : \E v \in CanonValues \ {cFields[i].value} :
       cFields' = [cFields EXCEPT ![i].value = v]
  /\ cPhase' = "mutated"
  /\ UNCHANGED <<cKeys, cSigned, cChecked, encryptVars, serverVars, utilVars>>

\* The field maps that can take the place of the one signed: the fields a and
\* b, one or both, in either order, with a plain value or one that holds '&'
\* and '='; and no field.
Substitutes ==
  {o \in Objects :
     \A i \in 1..Len(o) : /\ o[i].name \in {Str("a"), Str("b")}
                          /\ o[i].value \in {StringValue(Str("1")), StringValue(Str("1&b=1"))}}

\* Another field map is presented with the signature made.
CanonSubstitute ==
  /\ cPhase = "signed"
  /\ cFields' \in Substitutes \ {cFields}
  /\ cPhase' = "substituted"
  /\ UNCHANGED <<cKeys, cSigned, cChecked, encryptVars, serverVars, utilVars>>

\* The verification of the handler, of cFields against the signature made.
CanonVerify ==
  /\ cPhase \in {"signed", "reordered", "mutated", "substituted"}
  /\ IsOk(cSigned.sig)
  /\ \E valid \in VerifySignature(cFields, StringValue(cSigned.sig.ok), cKeys.pub) :
       cChecked' = [fields |-> cFields,
                    signStr |-> StringToSign(cFields),
                    verifyStr |-> NotificationStringToSign(cFields),
                    via |-> cPhase,
                    changed |-> SelectSeq(ObjectKeys(cFields),
                                  LAMBDA key : Get(cFields, key) # Get(cSigned.fields, key)),
                    valid |-> valid]
  /\ cPhase' = "verified"
  /\ UNCHANGED <<cKeys, cFields, cSigned, encryptVars, serverVars, utilVars>>

CanonNext == CanonSign \/ CanonReorder \/ CanonMutate \/ CanonSubstitute \/ CanonVerify


(***************************************************************************)
(* The encryption bench: encryptBizContentWithPrivateKey, one loop         *)
(* iteration per step, on payloads and keys drawn from bounded sets.       *)
(***************************************************************************)

\* The largest number of ASCII characters of a payload of the bench.
MaxChars == 235

\* n characters, the digits in turn.
Pattern(n) == [i \in 1..n |-> Ch(48 + (i % 10))]

\* Payloads of every length, all ASCII or led by U+00E9 (two bytes in UTF-8).
Payloads == {prefix \o Pattern(n) : prefix \in {<<>>, <<Ch(233)>>}, n \in 0..MaxChars}

\* Key texts: private keys of 1024, 2048 and 512 bits, a PRIVATE KEY block that
\* does not parse, and a public key.
KeyTexts ==
  {Pem("PRIVATE KEY", "PRIVATE KEY", "private", 1, 1024),
   Pem("PRIVATE KEY", "PRIVATE KEY", "private", 1, 2048),
   Pem("PRIVATE KEY", "PRIVATE KEY", "private", 1, 512),
   Pem("PRIVATE KEY", "PRIVATE KEY", "garbage", 0, 0),
   Pem("PUBLIC KEY", "PUBLIC KEY", "public", 1, 1024)}

EncryptStart ==
  /\ eInput \in [bizContent : Payloads, privateKey : KeyTexts]
  /\ eBuffer = <<>>
  /\ eOffset = 0
  /\ eChunks = <<>>
  /\ eCalls = 0
  /\ eResult = Err("none")
  /\ ePc = "call"

\* The bench at rest, for the specifications that do not use it.
EncryptIdle ==
  /\ eInput = [bizContent |-> <<>>, privateKey |-> PrivateKeyOf(1)]
  /\ eBuffer = <<>>
  /\ eOffset = 0
  /\ eChunks = <<>>
  /\ eCalls = 0
  /\ eResult = Err("none")
  /\ ePc = "idle"

\* const buffer = Buffer.from(bizContent, "utf8"); offset = 0
EncryptEnter ==
  /\ ePc = "call"
  /\ eBuffer' = Utf8(eInput.bizContent)
  /\ eOffset' = 0
  /\ eChunks' = <<>>
  /\ ePc' = "loop"
  /\ UNCHANGED <<eInput, eCalls, eResult, canonVars, serverVars, utilVars>>

\* One iteration: slice, privateEncrypt, push, offset += chunkSize.
EncryptIterate ==
  /\ ePc = "loop"
  /\ LoopContinues(eOffset, eBuffer)
  /\ LET encrypted == privateEncrypt(eInput.privateKey,
                                     Slice(eBuffer, eOffset, eOffset + chunkSize))
     IN /\ eCalls' = eCalls + 1
        /\ IF IsErr(encrypted)
           THEN /\ eResult' = encrypted
                /\ ePc' = "threw"
                /\ UNCHANGED <<eChunks, eOffset>>
           ELSE /\ eChunks' = Append(eChunks, encrypted.ok)
                /\ eOffset' = eOffset + chunkSize
                /\ UNCHANGED <<eResult, ePc>>
  /\ UNCHANGED <<eInput, eBuffer, canonVars, serverVars, utilVars>>

\* Buffer.concat(encryptedChunks).toString("base64") is returned.
EncryptReturn ==
  /\ ePc = "loop"
  /\ ~LoopContinues(eOffset, eBuffer)
  /\ eResult' = Ok(encode64(eChunks))
  /\ ePc' = "returned"
  /\ UNCHANGED <<eInput, eBuffer, eOffset, eChunks, eCalls, canonVars, serverVars, utilVars>>

EncryptNext == EncryptEnter \/ EncryptIterate \/ EncryptReturn

(***************************************************************************)
(* The utility bench: validatePemKey, generateRequestNo and                *)
(* generateTimestamp, each called once on arguments drawn from the sets    *)
(* below.                                                                  *)
(***************************************************************************)

\* Calls of validatePemKey: key texts with every pair of delimiters (the empty
\* one stands for a text without that delimiter) around a private key, a
\* public key (of 512, 1024 or 2048 bits) or a body that does not parse,
\* validated as either kind.
KeyCalls ==
  {[fn |-> "validatePemKey", key |-> Pem(begin, end, body.kind, 1, body.bits), type |-> type] :
     begin \in {"PRIVATE KEY", "PUBLIC KEY", "RSA PRIVATE KEY", ""},
     end \in {"PRIVATE KEY", "PUBLIC KEY", "RSA PRIVATE KEY", ""},
     body \in ([kind : {"private", "public"}, bits : {512, 1024, 2048}]
               \cup {[kind |-> "garbage", bits |-> 0]}),
     type \in {"PRIVATE KEY", "PUBLIC KEY"}}

\* Calls of generateRequestNo, with the 16 bytes that crypto.randomBytes yields.
NonceCalls ==
  {[fn |-> "generateRequestNo", randomBytes |-> [i \in 1..16 |-> (a * i + b) % 256]] :
     a \in {0, 1, 16, 17, 37, 255}, b \in {0, 9, 10, 15, 16, 159, 160, 255}}

\* Calls of generateTimestamp: the clock reading (1970-01-01, the ends of
\* February 2000, 2023-12-31, 2024-02-28 and -29, 2025-07-08, 2025-12-31, at
\* the start of a day, around 23:00 and at the end of a day) and the offset in
\* minutes of the time zone of the host.
ClockCalls ==
  {[fn |-> "generateTimestamp", now |-> [day |-> day, ms |-> ms], tz |-> tz] :
     day \in {0, 11015, 11016, 19722, 19781, 19782, 20277, 20453},
     ms \in {0, 999, 36165123, 82799999, 82800000, 86399999},
     tz \in {-300, 0, 60}}

\* The utility bench at rest, for the specifications that do not use it.
UtilIdle ==
  /\ uCall = [fn |-> "none"]
  /\ uResult = Err("none")
  /\ uPc = "idle"

\* validatePemKey(key, type)
UtilValidatePemKey ==
  /\ uPc = "call" /\ uCall.fn = "validatePemKey"
  /\ uResult' = validatePemKey(uCall.key, uCall.type)
  /\ uPc' = IF IsOk(validatePemKey(uCall.key, uCall.type)) THEN "returned" ELSE "threw"
  /\ UNCHANGED <<uCall, canonVars, encryptVars, serverVars>>

\* generateRequestNo()
UtilGenerateRequestNo ==
  /\ uPc = "call" /\ uCall.fn = "generateRequestNo"
  /\ uResult' = Ok(generateRequestNo(uCall.randomBytes))
  /\ uPc' = "returned"
  /\ UNCHANGED <<uCall, canonVars, encryptVars, serverVars>>

\* generateTimestamp(); Date and toISOString do not read the time zone.
UtilGenerateTimestamp ==
  /\ uPc = "call" /\ uCall.fn = "generateTimestamp"
  /\ uResult' = Ok(generateTimestamp(uCall.now))
  /\ uPc' = "returned"
  /\ UNCHANGED <<uCall, canonVars, encryptVars, serverVars>>

UtilNext == UtilValidatePemKey \/ UtilGenerateRequestNo \/ UtilGenerateTimestamp

(***************************************************************************)
(* The server: the three routes.  A handler runs its synchronous code to   *)
(* the end, one step at a time, before another handler runs; a payment     *)
(* handler gives way at its await on axios.post.                           *)
(***************************************************************************)

\* The largest number of requests received in a run.
MaxRequests == 2

\* The largest number of requests received in a run of repeated deliveries.
MaxDeliveries == 3

\* The texts that the requests, the notifications and the replies of the
\* gateway hold.
Sample ==
  [partnerId |-> Str("200001"),
   apiUrl |-> Str("https://gateway.example/api"),
   saleProductCode |-> Str("050200001"),
   phoneNum |-> Str("912345678"),
   clientIp |-> Str("203.0.113.7"),
   amount |-> Str("100"),
   subject |-> Str("Caf") \o <<Ch(233)>>,
   otherMethod |-> Str("PAYPAY_APP"),
   orderNo |-> Str("1751968965123"),
   statusS |-> Str("S"),
   statusF |-> Str("F"),
   junk |-> Str("zz"),
   dynamicLink |-> Str("https://pay.example/l/1"),
   tradeToken |-> Str("T1"),
   tradeNo |-> Str("N1"),
   subMsg |-> Str("Invalid signature"),
   failureCode |-> Str("F0001")]

\* The configuration object as the source holds it: empty identifiers and an
\* empty private key block, and the 2048-bit public key of the gateway.
SourceConfig ==
  [partnerId |-> <<>>,
   privateKey |-> Pem("PRIVATE KEY", "PRIVATE KEY", "garbage", 0, 0),
   paypayPublicKey |-> Pem("PUBLIC KEY", "PUBLIC KEY", "public", 2, 2048),
   apiUrl |-> <<>>,
   saleProductCode |-> <<>>]

\* The configuration object of a deployment: the merchant's identifiers and
\* 1024-bit private key (key pair 1), and the public key of the gateway (key
\* pair 2) or a block that does not parse in its place.
DeployedConfigs ==
  {[SourceConfig EXCEPT !.partnerId = Sample.partnerId,
                        !.privateKey = Pem("PRIVATE KEY", "PRIVATE KEY", "private", 1, 1024),
                        !.paypayPublicKey = publicKey,
                        !.apiUrl = Sample.apiUrl,
                        !.saleProductCode = Sample.saleProductCode] :
     publicKey \in {Pem("PUBLIC KEY", "PUBLIC KEY", "public", 2, 2048),
                    Pem("PUBLIC KEY", "PUBLIC KEY", "garbage", 0, 0)}}

\* A deployment whose private key is a PKCS#1 block, which crypto.privateEncrypt
\* and forge load and whose headers validatePemKey does not accept.
Pkcs1Config ==
  [SourceConfig EXCEPT !.partnerId = Sample.partnerId,
                       !.privateKey = Pem("RSA PRIVATE KEY", "RSA PRIVATE KEY", "private", 1, 1024),
                       !.apiUrl = Sample.apiUrl,
                       !.saleProductCode = Sample.saleProductCode]

Configs == {SourceConfig, Pkcs1Config} \cup DeployedConfigs


\* JSON bodies of POST /api/create
CreateBodies ==
  {<<Property(K.total_amount, StringValue(Sample.amount)),
     Property(K.paymentMethod, StringValue(V.MULTICAIXA_EXPRESS)),
     Property(K.phone_num, StringValue(Sample.phoneNum))>>,
   <<Property(K.total_amount, StringValue(Sample.amount)),
     Property(K.paymentMethod, StringValue(Sample.otherMethod)),
     Property(K.phone_num, StringValue(Sample.phoneNum))>>,
   <<Property(K.paymentMethod, StringValue(V.MULTICAIXA_EXPRESS)),
     Property(K.phone_num, StringValue(Sample.phoneNum))>>}

\* JSON bodies of POST /api/create-paypay-app
AppBodies ==
  {<<Property(K.total_amount, NumberValue(100)), Property(K.subject, StringValue(Sample.subject))>>,
   <<>>}


\* The fields of a notification, without its signature.
NotificationFields(status) ==
  <<Property(K.out_trade_no, StringValue(Sample.orderNo)),
    Property(K.status, StringValue(status)),
    Property(SignTypeName, StringValue(V.RSA))>>

\* The signature of the key pair over the fields, as the gateway makes it.
SignedBy(pair, fields) ==
  StringValue(encode64(RsaSign([pair |-> pair], Sha1(NotificationStringToSign(fields)))))


\* Bodies of POST /paypay/notification: signed by the gateway, signed by the
\* gateway over other content, signed by another key, with a sign that is no
\* base64 signature, with a number as sign, and with no sign.
NotificationBodies ==
  {Put(NotificationFields(Sample.statusS), SignName, sign) :
     sign \in {SignedBy(2, NotificationFields(Sample.statusS)),
               SignedBy(2, NotificationFields(Sample.statusF)),
               SignedBy(1, NotificationFields(Sample.statusS)),
               StringValue(Sample.junk), NumberValue(1)}}
  \cup {NotificationFields(Sample.statusS)}

\* Clock readings: 2025-07-08T10:02:45.123Z.
Clocks == {[day |-> 20277, ms |-> 36165123]}

\* Outcomes of crypto.randomBytes(16)
RandomBytes == {[i \in 1..16 |-> 0], [i \in 1..16 |-> (i * 37) % 256]}


\* What axios.post can come to: a reply whose data reports a pending payment, a
\* reply that reports a failure, a reply without biz_content, an error reply of
\* the gateway, and no reply.
GatewayOutcomes ==
  {[kind |-> "resolve", response |-> TRUE,
    data |-> ObjectValue(<<Property(K.code, StringValue(V.S0001)),
                           Property(K.biz_content, ObjectValue(<<
                             Property(K.status, StringValue(V.P)),
                             Property(K.dynamic_link, StringValue(Sample.dynamicLink)),
                             Property(K.trade_token, StringValue(Sample.tradeToken)),
                             Property(K.out_trade_no, StringValue(Sample.orderNo)),
                             Property(K.trade_no, StringValue(Sample.tradeNo))>>))>>)],
   [kind |-> "resolve", response |-> TRUE,
    data |-> ObjectValue(<<Property(K.code, StringValue(Sample.failureCode)),
                           Property(K.sub_msg, StringValue(Sample.subMsg))>>)],
   [kind |-> "resolve", response |-> TRUE,
    data |-> ObjectValue(<<Property(K.code, StringValue(V.S0001))>>)],
   [kind |-> "reject", response |-> TRUE,
    data |-> ObjectValue(<<Property(K.sub_msg, StringValue(Sample.subMsg))>>)],
   [kind |-> "reject", response |-> FALSE, data |-> Undefined]}

NoOutcome == [kind |-> "none", response |-> FALSE, data |-> Undefined]

\* res.status(status).json(json)
JsonResponse(status, json) == [status |-> status, text |-> "", json |-> json]

\* res.status(status).send(text)
TextResponse(status, text) == [status |-> status, text |-> text, json |-> <<>>]

Failure(error) == <<Property(K.success, BoolValue(FALSE)), Property(K.error, StringValue(error))>>

\* The request as it is received, with the locals of its handler not yet set.
NewRequest(route, body, ip, now, randomBytes) ==
  [route |-> route, body |-> body, ip |-> ip, now |-> now, randomBytes |-> randomBytes,
   pc |-> "received",
   orderDetails |-> [outTradeNo |-> Undefined, amount |-> Undefined,
                     phoneNum |-> Undefined, subject |-> Undefined],
   bizContent |-> Undefined,
   params |-> <<>>,
   stringToSign |-> <<>>,
   encodedParams |-> <<>>,
   posted |-> <<>>,
   tampered |-> <<>>,
   outcome |-> NoOutcome,
   calls |-> <<>>,
   responses |-> <<>>]

Routes == {"/api/create", "/api/create-paypay-app", "/paypay/notification"}

BodiesOf(route) ==
  CASE route = "/api/create" -> CreateBodies
    [] route = "/api/create-paypay-app" -> AppBodies
    [] OTHER -> NotificationBodies

\* What the clients can send: a route, a body and the address of the client
\* (req.ip), and the clock reading and the random bytes that the handler of the
\* request will draw.
Arrivals ==
  UNION {{[route |-> route, body |-> body, ip |-> StringValue(Sample.clientIp),
             now |-> now, randomBytes |-> randomBytes] :
            body \in BodiesOf(route), now \in Clocks, randomBytes \in RandomBytes} :
         route \in Routes}

\* The notifications, and one well-formed payment request for each route.
Deliveries ==
  {a \in Arrivals :
     /\ a.randomBytes[1] = 0
     /\ \/ a.route = "/paypay/notification"
        \/ /\ Has(a.body, K.total_amount)
           /\ a.route = "/api/create"
                => Get(a.body, K.paymentMethod) = StringValue(V.MULTICAIXA_EXPRESS)}

ServerStart ==
  /\ config \in Configs
  /\ requests = <<>>
  /\ running = 0
  /\ inbox = [arrivals |-> Arrivals, limit |-> MaxRequests]

\* The server started, with clients that deliver notifications, some of them
\* more than once, and create a payment of each kind.
DeliveriesStart ==
  /\ config \in Configs
  /\ requests = <<>>
  /\ running = 0
  /\ inbox = [arrivals |-> Deliveries, limit |-> MaxDeliveries]

\* The server at rest, for the specifications that do not use it.
ServerIdle ==
  /\ config = CHOOSE c \in DeployedConfigs : c.paypayPublicKey.body.kind = "public"
  /\ requests = <<>>
  /\ running = -1
  /\ inbox = [arrivals |-> {}, limit |-> 0]

\* A handler that clears config.privateKey when it gives up the loop.
StepClearingKey(next, keeps) ==
  /\ requests' = [requests EXCEPT ![running] = next]
  /\ running' = IF keeps THEN running ELSE 0
  /\ config' = IF keeps THEN config ELSE [config EXCEPT !.privateKey = SourceConfig.privateKey]
  /\ UNCHANGED <<inbox, canonVars, encryptVars, utilVars>>

\* The request running takes the given next form and keeps the loop (its
\* synchronous code goes on) or gives it up (it awaits, or it has responded).
Step(next, keeps) ==
  /\ requests' = [requests EXCEPT ![running] = next]
  /\ running' = IF keeps THEN running ELSE 0
  /\ UNCHANGED <<config, inbox, canonVars, encryptVars, utilVars>>

\* A handler that ends with a line in the log and no response.
RespondInLogOnly(r, response) == [r EXCEPT !.pc = "done"]

\* The handler has responded and ended.
Respond(r, response) == [r EXCEPT !.pc = "done", !.responses = Append(@, response)]

\* Express hands a request to its route.
Receive ==
  /\ running = 0
  /\ Len(requests) < inbox.limit
  /\ \E a \in inbox.arrivals :
       requests' = Append(requests, NewRequest(a.route, a.body, a.ip, a.now, a.randomBytes))
  /\ running' = Len(requests) + 1
  /\ UNCHANGED <<config, inbox, canonVars, encryptVars, utilVars>>

\* The catch block of a route: /api/create answers 200 with String(err),
\* /api/create-paypay-app answers 400 with err.message.
RouteCatch(r, prefix, message) ==
  IF r.route = "/api/create"
  THEN Respond(r, JsonResponse(200, Failure(prefix \o message)))
  ELSE Respond(r, JsonResponse(400, Failure(message)))

\* A route that does not look at paymentMethod.
CreateRouteAnyMethod ==
  /\ running > 0
  /\ LET r == requests[running] IN
     /\ r.route = "/api/create" /\ r.pc = "received"
     /\ IF ~Truthy(Get(r.body, K.total_amount)) \/ ~Truthy(Get(r.body, K.phone_num))
        THEN Step(Respond(r, JsonResponse(400, Failure(M.MissingCreateFields))), FALSE)
        ELSE Step([r EXCEPT !.pc = "called",
                            !.orderDetails = [outTradeNo |-> StringValue(DateNowString(r.now)),
                                              amount |-> parseFloat(Get(r.body, K.total_amount)),
                                              phoneNum |-> Get(r.body, K.phone_num),
                                              subject |-> StringValue(V.Purchase)]], TRUE)

\* POST /api/create, to the call of createMulticaixaPayment
CreateRoute ==
  /\ running > 0
  /\ LET r == requests[running] IN
     /\ r.route = "/api/create" /\ r.pc = "received"
     /\ IF Get(r.body, K.paymentMethod) # StringValue(V.MULTICAIXA_EXPRESS)
        THEN Step(Respond(r, JsonResponse(400, Failure(M.OnlyMulticaixa))), FALSE)
        ELSE IF ~Truthy(Get(r.body, K.total_amount)) \/ ~Truthy(Get(r.body, K.phone_num))
        THEN Step(Respond(r, JsonResponse(400, Failure(M.MissingCreateFields))), FALSE)
        ELSE Step([r EXCEPT !.pc = "called",
                            !.orderDetails = [outTradeNo |-> StringValue(DateNowString(r.now)),
                                              amount |-> parseFloat(Get(r.body, K.total_amount)),
                                              phoneNum |-> Get(r.body, K.phone_num),
                                              subject |-> StringValue(V.Purchase)]], TRUE)

\* POST /api/create-paypay-app, to the call of createPayPayAppPayment
AppRoute ==
  /\ running > 0
  /\ LET r == requests[running] IN
     /\ r.route = "/api/create-paypay-app" /\ r.pc = "received"
     /\ IF ~Truthy(Get(r.body, K.total_amount))
        THEN Step(Respond(r, JsonResponse(400, Failure(M.MissingAppField))), FALSE)
        ELSE Step([r EXCEPT !.pc = "called",
                            !.orderDetails = [outTradeNo |-> StringValue(DateNowString(r.now)),
                                              amount |-> parseFloat(Get(r.body, K.total_amount)),
                                              phoneNum |-> Undefined,
                                              subject |-> IF Truthy(Get(r.body, K.subject))
                                                          THEN Get(r.body, K.subject)
                                                          ELSE StringValue(V.Purchase)]], TRUE)

\* bizContent is built and encrypted; an error of the encryption reaches the
\* catch block of the route.
EncryptBizContent ==
  /\ running > 0
  /\ LET r == requests[running]
         bizContent == IF r.route = "/api/create"
                       THEN MulticaixaBizContent(config, r.orderDetails)
                       ELSE PayPayAppBizContent(config, r.orderDetails, r.ip)
         encryptedBizContent == encryptBizContentWithPrivateKey(JsonStringify(bizContent),
                                                                config.privateKey)
     IN /\ r.pc = "called"
        /\ IF IsErr(encryptedBizContent)
           THEN Step(RouteCatch([r EXCEPT !.bizContent = bizContent,
                                          !.calls = Append(@, "privateEncrypt")],
                                M.ErrorPrefix, Str(encryptedBizContent.err)), FALSE)
           ELSE Step([r EXCEPT !.pc = "encrypted",
                               !.bizContent = bizContent,
                               !.calls = Append(@, "privateEncrypt"),
                               !.params = <<Property(K.biz_content,
                                                     StringValue(encryptedBizContent.ok))>>], TRUE)

\* const params = {...}
Assemble ==
  /\ running > 0
  /\ LET r == requests[running] IN
     /\ r.pc = "encrypted"
     /\ Step([r EXCEPT !.pc = "assembled",
                       !.params = AssembleParams(config, Get(r.params, K.biz_content).string,
                                                 r.randomBytes, r.now)], TRUE)

\* params.sign = generateSignature(params, config.privateKey)
Sign ==
  /\ running > 0
  /\ LET r == requests[running]
         signature == generateSignature(r.params, config.privateKey)
     IN /\ r.pc = "assembled"
        /\ IF IsErr(signature)
           THEN Step(RouteCatch([r EXCEPT !.calls = Append(@, "validatePemKey")],
                                M.ErrorPrefix, Str(signature.err)), FALSE)
           ELSE Step([r EXCEPT !.pc = "signed",
                               !.calls = @ \o <<"validatePemKey", "sign">>,
                               !.stringToSign = StringToSign(r.params),
                               !.params = Put(r.params, SignName, StringValue(signature.ok))], TRUE)

\* encodedParams is filled
Encode ==
  /\ running > 0
  /\ LET r == requests[running] IN
     /\ r.pc = "signed"
     /\ Step([r EXCEPT !.pc = "encoded",
                       !.calls = Append(@, "encodeURIComponent"),
                       !.encodedParams = EncodeParams(r.params)], TRUE)

\* A payment function that keeps encodedParams in a variable of the module,
\* which the first call fills and every call posts.
PostShared ==
  /\ running > 0
  /\ LET r == requests[running] IN
     /\ r.pc = "encoded"
     /\ Step([r EXCEPT !.pc = "awaiting",
                       !.calls = @ \o <<"qs.stringify", "axios.post">>,
                       !.posted = Append(@, [url |-> config.apiUrl,
                                             data |-> qsStringify(requests[1].encodedParams)])], FALSE)

\* await axios.post(config.apiUrl, qs.stringify(encodedParams), ...)
Post ==
  /\ running > 0
  /\ LET r == requests[running] IN
     /\ r.pc = "encoded"
     /\ Step([r EXCEPT !.pc = "awaiting",
                       !.calls = @ \o <<"qs.stringify", "axios.post">>,
                       !.posted = Append(@, [url |-> config.apiUrl,
                                             data |-> qsStringify(r.encodedParams)])], FALSE)

\* x.name, where x can be undefined: the value, or the TypeError
Member(x, name) == IF IsObject(x) THEN Ok(Get(x.object, name)) ELSE Err("TypeError")

Or(x, y) == IF Truthy(x) THEN x ELSE y

\* The rest of a route once axios.post has resolved with result.
AfterResolve(r, result) ==
  IF Member(result, K.code).ok # StringValue(V.S0001)
  THEN Respond(r, JsonResponse(200, <<Property(K.success, BoolValue(FALSE)),
                                      Property(K.error, Or(Member(result, K.sub_msg).ok,
                                                           StringValue(M.Falha)))>>))
  ELSE LET biz == Member(result, K.biz_content).ok IN
    IF IsErr(Member(biz, K.status)) THEN RouteCatch(r, M.TypeErrorPrefix, M.TypeError)
    ELSE IF Member(biz, K.status).ok # StringValue(V.P)
    THEN Respond(r, JsonResponse(200, <<Property(K.success, BoolValue(FALSE)),
                                        Property(K.error, Or(Member(result, K.sub_msg).ok,
                                                             StringValue(M.Falha)))>>))
    ELSE Respond(r, JsonResponse(200, <<
           Property(K.success, BoolValue(TRUE)),
           Property(K.dynamic_link, Member(biz, K.dynamic_link).ok),
           Property(K.trade_token, Member(biz, K.trade_token).ok),
           Property(K.out_trade_no, Member(biz, K.out_trade_no).ok),
           Property(K.inner_trade_no, Member(biz, K.trade_no).ok),
           Property(K.total_amount, parseFloat(Or(Member(biz, K.total_amount).ok,
                                                  Get(r.body, K.total_amount)))),
           Property(K.return_url, Member(biz, K.dynamic_link).ok)>>))

\* The catch block of the payment function and then that of the route, once
\* axios.post has rejected.
AfterReject(r, outcome) ==
  IF r.route = "/api/create"
  THEN RouteCatch(r, M.AxiosErrorPrefix, IF outcome.response THEN M.RequestFailed ELSE M.NetworkError)
  ELSE IF ~outcome.response THEN RouteCatch(r, M.ErrorPrefix, M.FailedToConnect)
  ELSE IF IsErr(Member(outcome.data, K.sub_msg)) THEN RouteCatch(r, M.TypeErrorPrefix, M.TypeError)
  ELSE RouteCatch(r, M.ErrorPrefix,
                  Or(Member(outcome.data, K.sub_msg).ok, StringValue(M.ApiError)).string)

\* axios.post settles and the handler that awaited it runs to its end.
GatewayReply ==
  /\ running = 0
  /\ \E i \in 1..Len(requests) : \E outcome \in GatewayOutcomes :
       /\ requests[i].pc = "awaiting"
       /\ requests' = [requests EXCEPT ![i] =
            IF outcome.kind = "resolve"
            THEN AfterResolve([requests[i] EXCEPT !.outcome = outcome], outcome.data)
            ELSE AfterReject([requests[i] EXCEPT !.outcome = outcome], outcome)]
  /\ UNCHANGED <<running, config, inbox, canonVars, encryptVars, utilVars>>

\* The atoms that can take the place of a character of a text in transit: a
\* letter, and a character other than the one that a symbolic text has there.
Replacements(atom) == {Ch(65), [flip |-> atom]} \ {atom}

\* The network: one character of the biz_content of an envelope in transit is
\* replaced by another.
Tamper ==
  /\ running = 0
  /\ \E i \in 1..Len(requests) :
       LET r == requests[i]
           value == Get(r.params, K.biz_content).string
       IN /\ r.pc = "awaiting" /\ r.tampered = <<>>
          /\ \E at \in 1..Len(value) : \E to \in Replacements(value[at]) :
               requests' = [requests EXCEPT ![i].tampered =
                 Put(r.params, K.biz_content,
                     StringValue([value EXCEPT ![at] = to]))]
  /\ UNCHANGED <<running, config, inbox, canonVars, encryptVars, utilVars>>

\* POST /paypay/notification: validatePemKey(config.paypayPublicKey, "PUBLIC KEY")
NotificationValidate ==
  /\ running > 0
  /\ LET r == requests[running] IN
     /\ r.route = "/paypay/notification" /\ r.pc = "received"
     /\ IF IsErr(validatePemKey(config.paypayPublicKey, "PUBLIC KEY"))
        THEN Step(Respond([r EXCEPT !.calls = Append(@, "validatePemKey")],
                          TextResponse(500, "failure")), FALSE)
        ELSE Step([r EXCEPT !.pc = "validated", !.calls = Append(@, "validatePemKey")], TRUE)

\* POST /paypay/notification: the rest of the try block, and the response
NotificationVerify ==
  /\ running > 0
  /\ LET r == requests[running] IN
     /\ r.route = "/paypay/notification" /\ r.pc = "validated"
     /\ \E isValid \in VerifySignature(r.body, Get(r.body, SignName), config.paypayPublicKey) :
          Step(Respond([r EXCEPT !.stringToSign = NotificationStringToSign(r.body),
                                 !.calls = IF IsString(Get(r.body, SignName))
                                           THEN Append(@, "verify") ELSE @],
                       IF IsErr(isValid) THEN TextResponse(500, "failure")
                       ELSE IF isValid.ok THEN TextResponse(200, "success")
                       ELSE TextResponse(400, "failure")), FALSE)

ServerNext ==
  \/ Receive
  \/ CreateRoute
  \/ AppRoute
  \/ EncryptBizContent
  \/ Assemble
  \/ Sign
  \/ Encode
  \/ Post
  \/ GatewayReply
  \/ Tamper
  \/ NotificationValidate
  \/ NotificationVerify

Init == ServerStart /\ CanonIdle /\ EncryptIdle /\ UtilIdle

Next == ServerNext

Spec == Init /\ [][Next]_vars

DeliveriesInit == DeliveriesStart /\ CanonIdle /\ EncryptIdle /\ UtilIdle

DeliveriesNext ==
  \/ Receive
  \/ CreateRoute
  \/ AppRoute
  \/ EncryptBizContent
  \/ Assemble
  \/ Sign
  \/ Encode
  \/ Post
  \/ GatewayReply
  \/ NotificationValidate
  \/ NotificationVerify

SpecDeliveries == DeliveriesInit /\ [][DeliveriesNext]_vars

EncryptInit == EncryptStart /\ CanonIdle /\ ServerIdle /\ UtilIdle

CanonInit == CanonStart /\ EncryptIdle /\ ServerIdle /\ UtilIdle

SpecCanon == CanonInit /\ [][CanonNext]_vars

SpecEncrypt == EncryptInit /\ [][EncryptNext]_vars

UtilInit ==
  /\ uCall \in KeyCalls \cup NonceCalls \cup ClockCalls
  /\ uResult = Err("none")
  /\ uPc = "call"
  /\ CanonIdle /\ EncryptIdle /\ ServerIdle

SpecUtil == UtilInit /\ [][UtilNext]_vars

(***************************************************************************)
(* Properties of the sign / verify bench                                   *)
(***************************************************************************)

MatchingKeys == cKeys.priv.body.pair = cKeys.pub.body.pair

Excluded == {SignName, SignTypeName}

\* The positions of the fields of an object that canonicalization keeps.
Kept(o) == {i \in 1..Len(o) : o[i].name \notin Excluded}

\* name=value, with the raw value.
Rendered(p) == p.name \o EqualsSign \o JsToString(p.value)

\* The pairs of the fields at the given positions, in that order, with one '&'
\* between two pairs and none before the first or after the last.
Joined(o, order) ==
  Flatten([j \in 1..Len(order) |->
             (IF j > 1 THEN Ampersand ELSE <<>>) \o Rendered(o[order[j]])])

\* The orders in which the kept fields of o can be listed, each once.
Listings(o) ==
  {order \in [1..Cardinality(Kept(o)) -> Kept(o)] :
     \A i, j \in 1..Cardinality(Kept(o)) : i # j => order[i] # order[j]}

\* a precedes b in the order of UTF-16 code units.
CodeUnitLess(a, b) ==
  \E n \in 0..Len(a) :
    /\ n <= Len(b)
    /\ \A i \in 1..n : a[i].c = b[i].c
    /\ \/ n = Len(a) /\ n < Len(b)
       \/ n < Len(a) /\ n < Len(b) /\ a[n + 1].c < b[n + 1].c

RECURSIVE CodePoints(_)
\* The code points of a well-formed string: a surrogate pair is one code point.
CodePoints(s) ==
  IF s = <<>> THEN <<>>
  ELSE IF Len(s) >= 2 /\ s[1].c \in 55296..56319 /\ s[2].c \in 56320..57343
       THEN <<65536 + (s[1].c - 55296) * 1024 + (s[2].c - 56320)>> \o CodePoints(Tail(Tail(s)))
       ELSE <<s[1].c>> \o CodePoints(Tail(s))

\* a precedes b in the order of code points.
CodePointLess(a, b) ==
  LET x == CodePoints(a)
      y == CodePoints(b)
  IN \E n \in 0..Len(x) :
       /\ n <= Len(y)
       /\ \A i \in 1..n : x[i] = y[i]
       /\ \/ n = Len(x) /\ n < Len(y)
          \/ n < Len(x) /\ n < Len(y) /\ x[n + 1] < y[n + 1]

\* C2: for a field map and a matching key pair, verifying the map against the
\* signature that generateSignature returned for it yields true.
C2_RoundTrip ==
  (cPhase = "verified" /\ cChecked.via = "signed" /\ MatchingKeys)
    => cChecked.valid = Ok(TRUE)

C2_Witness ==
  /\ cPhase = "verified" /\ cChecked.via = "signed" /\ MatchingKeys
  /\ Has(cChecked.fields, SignTypeName) /\ Kept(cChecked.fields) # {}
  /\ cChecked.valid = Ok(TRUE)

\* C3 as stated: changing the value of any single field after signing makes the
\* verification of the original signature return false.
C3_AnyFieldAnyValue ==
  (cPhase = "verified" /\ cChecked.via = "mutated" /\ MatchingKeys)
    => cChecked.valid = Ok(FALSE)

\* C3 as amended: changing, after signing, the value of a single field other
\* than sign and sign_type to a value whose string rendering differs makes the
\* verification of the original signature return false.
C3_SignedFieldRenderedValue ==
  (/\ cPhase = "verified" /\ cChecked.via = "mutated" /\ MatchingKeys
   /\ cChecked.changed[1] \notin Excluded
   /\ JsToString(Get(cChecked.fields, cChecked.changed[1]))
        # JsToString(Get(cSigned.fields, cChecked.changed[1])))
    => cChecked.valid = Ok(FALSE)

C3_Witness ==
  /\ cPhase = "verified" /\ cChecked.via = "mutated" /\ MatchingKeys
  /\ cChecked.changed[1] \notin Excluded
  /\ JsToString(Get(cChecked.fields, cChecked.changed[1]))
       # JsToString(Get(cSigned.fields, cChecked.changed[1]))
  /\ cChecked.valid = Ok(FALSE)

\* C7: two field maps holding the same name-value pairs in different insertion
\* orders give the same string to sign, in generateSignature and in the handler.
C7_InsertionOrder ==
  (cPhase = "verified" /\ cChecked.via = "reordered")
    => /\ cChecked.signStr = cSigned.signStr
       /\ cChecked.verifyStr = cSigned.verifyStr

C7_Witness ==
  /\ cPhase = "verified" /\ cChecked.via = "reordered"
  /\ Cardinality(Kept(cChecked.fields)) >= 2
  /\ cChecked.fields # cSigned.fields
  /\ cChecked.signStr = cSigned.signStr

\* C8: the canonical string holds one name=value pair for every field whose name
\* is not excluded and none for an excluded name; {a: "1", sign: "x"} gives "a=1".
C8_ExcludesExactly ==
  cPhase # "input"
    => /\ \E order \in Listings(cSigned.fields) :
            cSigned.signStr = Joined(cSigned.fields, order)
       /\ \E order \in Listings(cSigned.fields) :
            cSigned.verifyStr = Joined(cSigned.fields, order)
       /\ (cSigned.fields = <<[name |-> Str("a"), value |-> StringValue(Str("1"))],
                              [name |-> SignName, value |-> StringValue(Str("x"))]>>
             => cSigned.signStr = Str("a=1") /\ cSigned.verifyStr = Str("a=1"))

C8_Witness ==
  /\ cPhase = "signed"
  /\ cSigned.fields = <<[name |-> Str("a"), value |-> StringValue(Str("1"))],
                        [name |-> SignName, value |-> StringValue(Str("x"))]>>
  /\ cSigned.signStr = Str("a=1")

\* C9 as stated: both sides build the same string, the kept names in ascending
\* code-point order, name=value joined with '&'.
C9_CodePointOrder ==
  cPhase # "input"
    => /\ cSigned.signStr = cSigned.verifyStr
       /\ \E order \in Listings(cSigned.fields) :
            /\ \A j \in 1..(Len(order) - 1) :
                 CodePointLess(cSigned.fields[order[j]].name, cSigned.fields[order[j + 1]].name)
            /\ cSigned.signStr = Joined(cSigned.fields, order)

\* C9 as amended: both sides build the same string, the kept names in ascending
\* order of UTF-16 code units, name=value joined with '&', with no separator
\* before the first pair or after the last.
C9_CodeUnitOrder ==
  cPhase # "input"
    => /\ cSigned.signStr = cSigned.verifyStr
       /\ \E order \in Listings(cSigned.fields) :
            /\ \A j \in 1..(Len(order) - 1) :
                 CodeUnitLess(cSigned.fields[order[j]].name, cSigned.fields[order[j + 1]].name)
            /\ cSigned.signStr = Joined(cSigned.fields, order)

C9_Witness ==
  /\ cPhase = "signed"
  /\ Len(cSigned.fields) = 2
  /\ cSigned.fields[1].name = <<Ch(65374)>>
  /\ cSigned.fields[2].name = Str("a")
  /\ cSigned.signStr = cSigned.verifyStr
  /\ cSigned.signStr = Rendered(cSigned.fields[2]) \o Ampersand \o Rendered(cSigned.fields[1])

(***************************************************************************)
(* Properties of the server                                                *)
(***************************************************************************)

\* The positions of the kept fields of o, by ascending code units of the names.
Ranked(o) ==
  LET before == <<>> \o [i \in 1..Len(o) |->
                          Cardinality({j \in Kept(o) : CodeUnitLess(o[j].name, o[i].name)})]
  IN <<>> \o [k \in 1..Cardinality(Kept(o)) |-> CHOOSE i \in Kept(o) : before[i] = k - 1]

\* The canonical string of an object: its fields other than sign and sign_type,
\* by ascending name, as name=value with the raw value, '&' between two.
Canonical(o) == Joined(o, Ranked(o))

\* The pieces of s between the occurrences of sep.
Pieces(s, sep) ==
  LET at == {i \in 1..Len(s) : s[i] = sep}
      cut(k) == IF k = 0 THEN 0
                ELSE IF k > Cardinality(at) THEN Len(s) + 1
                ELSE CHOOSE i \in at : Cardinality({j \in at : j < i}) = k - 1
  IN <<>> \o [k \in 1..(Cardinality(at) + 1) |-> SubSeq(s, cut(k - 1) + 1, cut(k) - 1)]

HexValue(a) == CHOOSE v \in 0..15 : HexDigits[v + 1] = a

\* The text that percent-encoding turned into s, for ASCII text.
PercentDecode(s) ==
  LET escape(i) == i >= 1 /\ s[i] = Percent[1]
      whole(i) == ~escape(i - 1) /\ ~escape(i - 2)
      kept == SelectSeq([i \in 1..Len(s) |-> i], whole)
      at(i) == IF escape(i) THEN Ch(16 * HexValue(s[i + 1]) + HexValue(s[i + 2]))
               ELSE IF "pct" \in DOMAIN s[i] THEN s[i].pct
               ELSE s[i]
  IN <<>> \o [k \in 1..Len(kept) |-> at(kept[k])]

\* The fields that a receiver reads from a form body whose values were encoded
\* twice, in the order of the body.
WireFields(data) ==
  LET pieces == Pieces(data, Ampersand[1])
  IN <<>> \o [k \in 1..Len(pieces) |->
                 LET halves == Pieces(pieces[k], EqualsSign[1])
                 IN Property(PercentDecode(halves[1]),
                             StringValue(PercentDecode(PercentDecode(halves[2]))))]

Payment(r) == r.route \in {"/api/create", "/api/create-paypay-app"}

MerchantPublicKey == Pem("PUBLIC KEY", "PUBLIC KEY", "public", 1, 1024)

\* The signature of the private key of the configuration over a text.
SignatureOver(text) ==
  StringValue(<<[b64 |-> <<[sig |-> [pair |-> config.privateKey.body.pair,
                                     md |-> [sha1 |-> text]]]>>]>>)

\* C1: a notification is answered "success" exactly when its sign is the
\* signature, under config.paypayPublicKey, of the canonical string of its
\* fields other than sign and sign_type; every other notification (no sign, a
\* sign over other content or by another key, a sign that does not decode, a
\* key that does not parse) is answered "failure".
C1_SuccessOnlyIfValid ==
  \A i \in 1..Len(requests) :
    LET r == requests[i]
        genuine ==
          /\ config.paypayPublicKey.body.kind = "public"
          /\ Has(r.body, SignName)
          /\ Get(r.body, SignName) =
               StringValue(<<[b64 |-> <<[sig |-> [pair |-> config.paypayPublicKey.body.pair,
                                                  md |-> [sha1 |-> Canonical(r.body)]]]>>]>>)
    IN (r.route = "/paypay/notification" /\ r.pc = "done") =>
         /\ Len(r.responses) = 1
         /\ r.responses[1].text = (IF genuine THEN "success" ELSE "failure")
         /\ r.responses[1].status = 200 <=> genuine

C1_Witness ==
  \E i, j \in 1..Len(requests) :
    /\ requests[i].route = "/paypay/notification" /\ requests[i].pc = "done"
    /\ requests[i].responses[1].text = "success"
    /\ requests[j].route = "/paypay/notification" /\ requests[j].pc = "done"
    /\ requests[j].responses[1].text = "failure"
    /\ Has(requests[j].body, SignName)
    /\ requests[j].responses[1].status = 400

\* C4: once one character of the biz_content of a signed envelope is replaced,
\* the verification of the sign of the envelope against the envelope, with the
\* key that matches the signing key, yields false; the canonical string of an
\* envelope that was not touched is the string that was signed and its
\* verification yields true.
C4_TamperedBizContent ==
  \A i \in 1..Len(requests) :
    LET r == requests[i] IN
      (Payment(r) /\ r.posted # <<>>) =>
        /\ NotificationStringToSign(r.params) = r.stringToSign
        /\ VerifySignature(r.params, Get(r.params, SignName), MerchantPublicKey) = {Ok(TRUE)}
        /\ r.tampered # <<>> =>
             /\ Get(r.tampered, SignName) = Get(r.params, SignName)
             /\ VerifySignature(r.tampered, Get(r.tampered, SignName), MerchantPublicKey)
                  = {Ok(FALSE)}

C4_Witness ==
  \E i, j \in 1..Len(requests) :
    /\ requests[i].tampered # <<>>
    /\ requests[j].posted # <<>> /\ requests[j].tampered = <<>>
    /\ requests[i].route = "/api/create" /\ requests[j].route = "/api/create-paypay-app"

FirstCall(calls, name) ==
  IF \E k \in 1..Len(calls) : calls[k] = name
  THEN CHOOSE k \in 1..Len(calls) : calls[k] = name /\ \A m \in 1..(k - 1) : calls[m] # name
  ELSE 0

\* C6: in a payment-creation call, values are URL-encoded only once
\* generateSignature has returned, and the text that was signed holds the
\* timestamp as generateTimestamp made it and no field in its URL-encoded form
\* where that form differs from the value.
C6_EncodeAfterSign ==
  \A i \in 1..Len(requests) :
    LET r == requests[i]
        signed == Pieces(r.stringToSign, Ampersand[1])
    IN Payment(r) =>
         /\ (r.encodedParams # <<>> \/ FirstCall(r.calls, "encodeURIComponent") > 0
             \/ FirstCall(r.calls, "qs.stringify") > 0) =>
              /\ Has(r.params, SignName)
              /\ FirstCall(r.calls, "sign") > 0
              /\ \A k \in 1..Len(r.calls) :
                   r.calls[k] \in {"encodeURIComponent", "qs.stringify", "axios.post"}
                     => k > FirstCall(r.calls, "sign")
         /\ r.stringToSign # <<>> =>
              /\ \E k \in 1..Len(signed) :
                   signed[k] = K.timestamp \o EqualsSign \o generateTimestamp(r.now)
              /\ \A m \in 1..Len(r.params) :
                   encodeURIComponent(r.params[m].value) # r.params[m].value =>
                     \A k \in 1..Len(signed) :
                       signed[k] # r.params[m].name \o EqualsSign
                                     \o encodeURIComponent(r.params[m].value).string

C6_Witness ==
  \E i \in 1..Len(requests) :
    /\ FirstCall(requests[i].calls, "axios.post") > 0
    /\ encodeURIComponent(Get(requests[i].params, K.timestamp))
         # Get(requests[i].params, K.timestamp)
    /\ requests[i].route = "/api/create-paypay-app"

\* The text of the Basic Multilingual Plane that the bytes are the UTF-8 of.
Utf8Decode(bytes) ==
  LET lead(i) == bytes[i] < 128 \/ bytes[i] >= 192
      leads == SelectSeq([i \in 1..Len(bytes) |-> i], lead)
      unit(i) == IF bytes[i] < 128 THEN bytes[i]
                 ELSE IF bytes[i] < 224 THEN (bytes[i] - 192) * 64 + (bytes[i + 1] - 128)
                 ELSE (bytes[i] - 224) * 4096 + (bytes[i + 1] - 128) * 64 + (bytes[i + 2] - 128)
  IN <<>> \o [k \in 1..Len(leads) |-> Ch(unit(leads[k]))]

\* What decrypting a block with the public key of a key pair gives: the chunk
\* that the private key of the pair encrypted into it.
PublicDecrypt(pair, block) ==
  IF block.enc.pair = pair THEN block.enc.chunk ELSE <<>>

\* C12: the biz_content of every envelope, decoded from base64, split into
\* blocks of the size of the modulus, each decrypted with the public key that
\* matches config.privateKey, and concatenated in order, is the JSON text of
\* the business content, which holds the order details of the request.
C12_EncryptionRoundTrip ==
  \A i \in 1..Len(requests) :
    LET r == requests[i] IN
      (Payment(r) /\ Has(r.params, K.biz_content)) =>
        LET blocks == decode64(Get(r.params, K.biz_content).string)
            plain == Flatten([k \in 1..Len(blocks) |->
                               PublicDecrypt(config.privateKey.body.pair, blocks[k])])
            tradeInfo == Get(r.bizContent.object, K.trade_info).object
        IN /\ \A k \in 1..Len(blocks) : blocks[k].enc.bits = config.privateKey.body.bits
           /\ Utf8Decode(plain) = JsonStringify(r.bizContent)
           /\ Get(tradeInfo, K.out_trade_no) = StringValue(DateNowString(r.now))
           /\ Get(tradeInfo, K.total_amount).string
                = JsToString(Get(r.body, K.total_amount)) \o Str(".00")
           /\ Has(r.body, K.subject) => Get(tradeInfo, K.subject) = Get(r.body, K.subject)

C12_Witness ==
  \E i \in 1..Len(requests) :
    /\ requests[i].route = "/api/create-paypay-app"
    /\ Has(requests[i].params, SignName)
    /\ Has(requests[i].body, K.subject)
    /\ Len(decode64(Get(requests[i].params, K.biz_content).string)) >= 3
    /\ Len(Utf8(JsonStringify(requests[i].bizContent)))
         > Len(JsonStringify(requests[i].bizContent))

\* Every occurrence of a call in a log comes right after one of another call.
Preceded(calls, name, by) ==
  \A k \in 1..Len(calls) : calls[k] = name => (k > 1 /\ calls[k - 1] = by)

\* The key text is a block of the given type that holds a key of that kind.
Accepted(key, type, kind) == key.begin = type /\ key.end = type /\ key.body.kind = kind

FailedToGenerate == Str("Failed to generate signature")

\* The handler has built params and ended without a sign in it.
SigningFailed(r) == r.pc = "done" /\ Len(r.params) = 10 /\ ~Has(r.params, SignName)

\* C13: every signing and every verification comes right after a run of
\* validatePemKey on its key in the same call; with a key that validatePemKey
\* rejects, the sign or verify primitive is not reached, generateSignature
\* fails with "Failed to generate signature" and the notification handler
\* answers with its error outcome.
C13_ValidationBeforeSignVerify ==
  \A i \in 1..Len(requests) :
    LET r == requests[i] IN
      /\ Preceded(r.calls, "sign", "validatePemKey")
      /\ Preceded(r.calls, "verify", "validatePemKey")
      /\ (Payment(r) /\ ~Accepted(config.privateKey, "PRIVATE KEY", "private")) =>
           /\ \A k \in 1..Len(r.calls) : r.calls[k] # "sign"
           /\ ~Has(r.params, SignName)
           /\ r.pc \notin {"signed", "encoded", "awaiting"}
           /\ SigningFailed(r) =>
                Get(r.responses[1].json, K.error).string
                  \in {FailedToGenerate, M.ErrorPrefix \o FailedToGenerate}
      /\ (r.route = "/paypay/notification"
          /\ ~Accepted(config.paypayPublicKey, "PUBLIC KEY", "public")) =>
           /\ \A k \in 1..Len(r.calls) : r.calls[k] # "verify"
           /\ r.pc = "done" => r.responses = <<TextResponse(500, "failure")>>

C13_Witness ==
  \E i, j \in 1..Len(requests) :
    /\ SigningFailed(requests[i])
    /\ requests[i].calls = <<"privateEncrypt", "validatePemKey">>
    /\ requests[j].route = "/paypay/notification"
    /\ requests[j].calls = <<"validatePemKey", "verify">>

\* C14 as stated: in every payment-creation call crypto.privateEncrypt is
\* applied right after a run of validatePemKey on config.privateKey, so no
\* chunk is encrypted with a key that was not validated in that call.
C14_ValidationBeforeEncryption ==
  \A i \in 1..Len(requests) :
    Preceded(requests[i].calls, "privateEncrypt", "validatePemKey")

\* The response reports a failure: success is false and error holds a message.
ReportsFailure(response) ==
  /\ Get(response.json, K.success) = BoolValue(FALSE)
  /\ IsString(Get(response.json, K.error))

\* C15: a request is posted to the gateway only once the encryption and the
\* signing of the call have both succeeded, and at most once; with a key that
\* does not load, or that validatePemKey rejects, the call posts nothing and
\* ends with an error, which the route reports.
C15_NoPartialEnvelope ==
  \A i \in 1..Len(requests) :
    LET r == requests[i] IN
      Payment(r) =>
        /\ Len(r.posted) <= 1
        /\ r.posted # <<>> =>
             /\ FirstCall(r.calls, "privateEncrypt") > 0
             /\ FirstCall(r.calls, "sign") > FirstCall(r.calls, "privateEncrypt")
             /\ FirstCall(r.calls, "axios.post") > FirstCall(r.calls, "sign")
             /\ Has(r.params, K.biz_content) /\ Has(r.params, SignName)
             /\ Get(r.params, K.biz_content).string # <<>>
        /\ ~Accepted(config.privateKey, "PRIVATE KEY", "private") =>
             /\ r.posted = <<>>
             /\ r.outcome = NoOutcome
             /\ r.pc \notin {"signed", "encoded", "awaiting"}
             /\ r.pc = "done" =>
                  /\ Len(r.responses) = 1
                  /\ ReportsFailure(r.responses[1])

C15_Witness ==
  \E i, j \in 1..Len(requests) :
    /\ SigningFailed(requests[i]) /\ requests[i].route = "/api/create"
    /\ requests[i].posted = <<>>
    /\ SigningFailed(requests[j]) /\ requests[j].route = "/api/create-paypay-app"
    /\ ReportsFailure(requests[j].responses[1])

\* The sign of the notification is a string that is not the signature of the
\* gateway over the canonical string of the notification.
NotGenuine(r) ==
  /\ IsString(Get(r.body, SignName))
  /\ Get(r.body, SignName) #
       StringValue(<<[b64 |-> <<[sig |-> [pair |-> config.paypayPublicKey.body.pair,
                                          md |-> [sha1 |-> Canonical(r.body)]]]>>]>>)

\* C16 as stated: a notification whose sign decodes from base64 and is not a
\* valid signature of its canonical string is answered 400 "failure", never
\* 500.
C16_RejectNeverError ==
  \A i \in 1..Len(requests) :
    LET r == requests[i] IN
      (/\ r.route = "/paypay/notification" /\ r.pc = "done"
       /\ Accepted(config.paypayPublicKey, "PUBLIC KEY", "public")
       /\ NotGenuine(r))
        => r.responses = <<TextResponse(400, "failure")>>

\* What the handler answered to a notification: it accepted it with "success",
\* or it rejected it with "failure".
Verdict(r) ==
  IF r.responses = <<TextResponse(200, "success")>> THEN "accept"
  ELSE IF Len(r.responses) = 1 /\ r.responses[1].text = "failure" THEN "reject"
  ELSE "none"

\* C17: two deliveries of the same notification get the same accept or reject
\* outcome, whatever requests were handled between them.
C17_DuplicateDeliveries ==
  \A i, j \in 1..Len(requests) :
    (/\ i < j
     /\ requests[i].route = "/paypay/notification" /\ requests[i].pc = "done"
     /\ requests[j].route = "/paypay/notification" /\ requests[j].pc = "done"
     /\ requests[i].body = requests[j].body)
      => /\ Verdict(requests[i]) \in {"accept", "reject"}
         /\ Verdict(requests[j]) = Verdict(requests[i])

C17_Witness ==
  /\ Len(requests) = 3
  /\ requests[1].route = "/paypay/notification" /\ requests[3].route = "/paypay/notification"
  /\ requests[1].body = requests[3].body
  /\ Verdict(requests[1]) = "accept" /\ Verdict(requests[3]) = "accept"
  /\ Payment(requests[2]) /\ requests[2].posted # <<>> /\ requests[2].pc = "done"

\* The order that a route makes of the body of the request and of the clock.
OwnOrder(r) ==
  [outTradeNo |-> StringValue(DateNowString(r.now)),
   amount |-> parseFloat(Get(r.body, K.total_amount)),
   phoneNum |-> IF r.route = "/api/create" THEN Get(r.body, K.phone_num) ELSE Undefined,
   subject |-> IF r.route = "/api/create-paypay-app" /\ Truthy(Get(r.body, K.subject))
               THEN Get(r.body, K.subject) ELSE StringValue(V.Purchase)]

\* The envelope that the configuration, the body, the random bytes and the
\* clock reading of the request determine.
OwnEnvelope(r) ==
  LET bizContent == IF r.route = "/api/create"
                    THEN MulticaixaBizContent(config, OwnOrder(r))
                    ELSE PayPayAppBizContent(config, OwnOrder(r), r.ip)
      encrypted == encryptBizContentWithPrivateKey(JsonStringify(bizContent), config.privateKey)
      params == AssembleParams(config, encrypted.ok, r.randomBytes, r.now)
      signature == generateSignature(params, config.privateKey)
  IN [url |-> config.apiUrl,
      data |-> qsStringify(EncodeParams(Put(params, SignName, StringValue(signature.ok))))]

\* The response that the route and the reply of the gateway determine.
OwnResponse(r) ==
  LET fresh == [NewRequest(r.route, r.body, r.ip, r.now, r.randomBytes) EXCEPT !.pc = "awaiting"]
  IN IF r.outcome.kind = "resolve"
     THEN AfterResolve(fresh, r.outcome.data).responses
     ELSE AfterReject(fresh, r.outcome).responses

\* C18: whatever requests are in flight at the same time, and in whatever
\* order the gateway replies, the envelope posted for a request is the one
\* that its own body, random bytes and clock reading determine, and the
\* response sent is the one that its own gateway reply determines.
C18_RequestIsolation ==
  \A i \in 1..Len(requests) :
    LET r == requests[i] IN
      Payment(r) =>
        /\ r.posted # <<>> => r.posted = <<OwnEnvelope(r)>>
        /\ (r.pc = "done" /\ r.outcome # NoOutcome) => r.responses = OwnResponse(r)
        /\ r.outcome # NoOutcome => r.pc = "done" /\ r.posted # <<>>

C18_Witness ==
  /\ Len(requests) = 2
  /\ requests[1].pc = "awaiting" /\ requests[1].responses = <<>>
  /\ requests[2].pc = "done" /\ requests[2].outcome # NoOutcome
  /\ requests[1].route # requests[2].route
  /\ requests[1].randomBytes # requests[2].randomBytes
  /\ Get(requests[2].responses[1].json, K.success) = BoolValue(TRUE)

\* C19: no step of the server (receiving a request, building, encrypting,
\* signing and posting an envelope, handling the reply of the gateway,
\* verifying a notification) changes config or any of its fields.
C19_ConfigReadOnly == [][config' = config]_vars

C19_Witness ==
  \E i, j \in 1..Len(requests) :
    /\ Payment(requests[i]) /\ requests[i].pc = "done" /\ requests[i].posted # <<>>
    /\ "sign" \in {requests[i].calls[k] : k \in 1..Len(requests[i].calls)}
    /\ requests[j].route = "/paypay/notification" /\ requests[j].pc = "done"
    /\ "verify" \in {requests[j].calls[k] : k \in 1..Len(requests[j].calls)}

\* The names of the top-level fields of an envelope.
EnvelopeNames ==
  {Str("charset"), Str("biz_content"), Str("partner_id"), Str("service"),
   Str("request_no"), Str("format"), Str("sign_type"), Str("version"),
   Str("timestamp"), Str("language"), Str("sign")}

\* The names of the fields that describe the payment method.
PayMethodNames == {Str("pay_product_code"), Str("amount"), Str("bank_code"), Str("phone_num")}

\* The values that every envelope has.
FixedValues ==
  <<Property(Str("sign_type"), StringValue(Str("RSA"))),
    Property(Str("format"), StringValue(Str("JSON"))),
    Property(Str("charset"), StringValue(Str("UTF-8"))),
    Property(Str("version"), StringValue(Str("1.0")))>>

\* The names of the properties of an object and of the objects it holds.
RECURSIVE NamesWithin(_)
NamesWithin(object) ==
  UNION {{object[k].name} \cup (IF IsObject(object[k].value)
                                THEN NamesWithin(object[k].value.object) ELSE {}) :
         k \in 1..Len(object)}

\* C20: an envelope posted to the gateway has eleven top-level fields, named
\* charset, biz_content, partner_id, service, request_no, format, sign_type,
\* version, timestamp, language and sign, with sign_type "RSA", format "JSON",
\* charset "UTF-8" and version "1.0"; pay_product_code, amount, bank_code and
\* phone_num are not among them, and what the envelope holds of the business
\* content is ciphertext in base64 only.
C20_EnvelopeShape ==
  \A i \in 1..Len(requests) :
    LET r == requests[i] IN
      \A n \in 1..Len(r.posted) :
        LET envelope == WireFields(r.posted[n].data) IN
          /\ Len(envelope) = 11
          /\ {envelope[k].name : k \in 1..Len(envelope)} = EnvelopeNames
          /\ \A k \in 1..Len(FixedValues) :
               Get(envelope, FixedValues[k].name) = FixedValues[k].value
          /\ \A k \in 1..Len(envelope) : envelope[k].name \notin PayMethodNames
          /\ LET value == Get(envelope, Str("biz_content")).string
             IN value # <<>> /\ \A k \in 1..Len(value) : DOMAIN value[k] = {"b64"}

C20_Witness ==
  \E i \in 1..Len(requests) :
    /\ requests[i].route = "/api/create" /\ Len(requests[i].posted) = 1
    /\ PayMethodNames \subseteq NamesWithin(requests[i].bizContent.object)
    /\ Get(WireFields(requests[i].posted[1].data), Str("version")) = StringValue(Str("1.0"))

(***************************************************************************)
(* Properties of the encryption bench                                      *)
(***************************************************************************)

\* The number of blocks that the returned base64 text holds.
BlocksOf(encoded) == Len(decode64(encoded))

\* C10: for a payload of L bytes, encryptBizContentWithPrivateKey applies the RSA
\* primitive ceil(L/117) times and returns that many ciphertext blocks; for the
\* empty payload it applies it zero times and returns the empty ciphertext.
C10_BlockCount ==
  ePc = "returned"
    => /\ eCalls = (Len(Utf8(eInput.bizContent)) + 116) \div 117
       /\ BlocksOf(eResult.ok) = (Len(Utf8(eInput.bizContent)) + 116) \div 117
       /\ (eInput.bizContent = <<>> => eCalls = 0 /\ eResult = Ok(<<>>))
       /\ eResult = encryptBizContentWithPrivateKey(eInput.bizContent, eInput.privateKey)

C10_Witness ==
  /\ ePc = "returned"
  /\ Len(Utf8(eInput.bizContent)) = 235
  /\ Len(eInput.bizContent) = 234
  /\ eCalls = 3
  /\ BlocksOf(eResult.ok) = 3

\* The chunks that the blocks of a returned base64 text were made from.
ChunksOf(encoded) == [i \in 1..BlocksOf(encoded) |-> decode64(encoded)[i].enc.chunk]

\* C11: the plaintext chunks are contiguous and do not overlap, every chunk but
\* the last holds 117 bytes and the last 1 to 117, their concatenation in order
\* is the payload, and the i-th block of the output is the encryption of the
\* i-th chunk.
C11_ChunksInOrder ==
  ePc = "returned"
    => LET bytes == Utf8(eInput.bizContent)
           blocks == decode64(eResult.ok)
           chunks == ChunksOf(eResult.ok)
           n == Len(blocks)
       IN /\ \A i \in 1..n :
               /\ chunks[i] = SubSeq(bytes, 117 * (i - 1) + 1,
                                     IF 117 * i < Len(bytes) THEN 117 * i ELSE Len(bytes))
               /\ i < n => Len(chunks[i]) = 117
               /\ i = n => Len(chunks[i]) \in 1..117
               /\ blocks[i] = [enc |-> [pair |-> eInput.privateKey.body.pair,
                                        bits |-> eInput.privateKey.body.bits,
                                        chunk |-> chunks[i]]]
          /\ Flatten(chunks) = bytes

C11_Witness ==
  /\ ePc = "returned"
  /\ Len(Utf8(eInput.bizContent)) = 119
  /\ eInput.bizContent[1] = Ch(233)
  /\ Len(ChunksOf(eResult.ok)) = 2
  /\ Len(ChunksOf(eResult.ok)[2]) = 2

\* The names of the calls that a request has made.
Called(r) == {r.calls[k] : k \in 1..Len(r.calls)}

\* C26 as stated: the business content that createPayPayAppPayment builds and
\* encrypts has the clientIp it was given, req.ip of the route, as payer_ip.
C26_PayerIpIsClientIp ==
  \A i \in 1..Len(requests) :
    LET r == requests[i] IN
      (r.route = "/api/create-paypay-app" /\ "privateEncrypt" \in Called(r))
        => Get(r.bizContent.object, K.payer_ip) = r.ip

\* The names and the values of the fields that canonicalization keeps.
SignedFields(o) == {<<o[i].name, o[i].value>> : i \in Kept(o)}

\* C27 as stated: a field map that differs from the one signed in the set of
\* its non-excluded names or in a non-excluded value has another canonical
\* string, for generateSignature and for the notification handler, and the
\* signature made does not verify for it.
C27_Injective ==
  (/\ cPhase = "verified" /\ cChecked.via = "substituted"
   /\ SignedFields(cChecked.fields) # SignedFields(cSigned.fields))
    => /\ cChecked.signStr # cSigned.signStr
       /\ cChecked.verifyStr # cSigned.verifyStr
       /\ cChecked.valid # Ok(TRUE)

\* The fields that a receiver reads from a form body when it decodes every
\* name and every value once.
DecodedOnce(data) ==
  LET pieces == Pieces(data, Ampersand[1])
  IN <<>> \o [k \in 1..Len(pieces) |->
                 LET halves == Pieces(pieces[k], EqualsSign[1])
                 IN Property(PercentDecode(halves[1]), StringValue(PercentDecode(halves[2])))]

\* C28 as stated: one URL-decoding of every value of the form body posted
\* gives the values over which sign was computed, and the value of sign.
C28_EncodedOnce ==
  \A i \in 1..Len(requests) :
    LET r == requests[i] IN
      \A n \in 1..Len(r.posted) :
        LET envelope == DecodedOnce(r.posted[n].data) IN
          /\ Len(envelope) = Len(r.params)
          /\ \A k \in 1..Len(envelope) :
               envelope[k].value = Get(r.params, envelope[k].name)

\* The position of a handler, counted in the steps it has taken at least.
Rank(pc) ==
  CASE pc = "received" -> 0
    [] pc \in {"called", "validated"} -> 1
    [] pc = "encrypted" -> 2
    [] pc = "assembled" -> 3
    [] pc = "signed" -> 4
    [] pc = "encoded" -> 5
    [] pc = "awaiting" -> 6
    [] pc = "done" -> 7

\* The request has a step to take: it is the one running and at a position of
\* the synchronous code of its route, or it awaits the gateway.
CanProceed(i) ==
  LET r == requests[i] IN
    \/ /\ running = i
       /\ IF Payment(r)
          THEN r.pc \in {"received", "called", "encrypted", "assembled", "signed", "encoded"}
          ELSE r.pc \in {"received", "validated"}
    \/ /\ running # i /\ r.pc = "awaiting" /\ Payment(r)
       /\ Len(r.posted) = 1 /\ r.outcome = NoOutcome

\* C29: on every path a request has no response while its handler has a step
\* to take or awaits the gateway, and exactly one response once the handler
\* has ended; every step of a handler, and every settling of axios.post,
\* brings the handler nearer to its end, and a response sent is never
\* followed by another.
C29_ExactlyOneResponse ==
  /\ [](\A i \in 1..Len(requests) :
          /\ Len(requests[i].responses) <= 1
          /\ requests[i].pc = "done" <=> Len(requests[i].responses) = 1
          /\ requests[i].pc # "done" => CanProceed(i))
  /\ [][\A i \in 1..Len(requests) :
          /\ Rank(requests'[i].pc) >= Rank(requests[i].pc)
          /\ running = i => Rank(requests'[i].pc) > Rank(requests[i].pc)
          /\ requests[i].outcome # requests'[i].outcome => requests'[i].pc = "done"
          /\ requests[i].pc = "done" => requests'[i] = requests[i]]_vars

C29_Witness ==
  \E i \in 1..Len(requests) :
    /\ Payment(requests[i]) /\ requests[i].outcome.kind = "reject"
    /\ ~requests[i].outcome.response
    /\ requests[i].pc = "done" /\ Len(requests[i].responses) = 1

\* The body of the request is one that its route rejects: for /api/create a
\* paymentMethod other than MULTICAIXA_EXPRESS or no total_amount or no
\* phone_num, for /api/create-paypay-app no total_amount.
Rejected(r) ==
  \/ /\ r.route = "/api/create"
     /\ \/ Get(r.body, K.paymentMethod) # StringValue(V.MULTICAIXA_EXPRESS)
        \/ ~Has(r.body, K.total_amount)
        \/ ~Has(r.body, K.phone_num)
  \/ /\ r.route = "/api/create-paypay-app"
     /\ ~Has(r.body, K.total_amount)

Validated == uCall.fn = "validatePemKey" /\ uPc \in {"returned", "threw"}

\* The key text lacks the BEGIN or the END delimiter of the requested kind.
LacksDelimiter == uCall.key.begin # uCall.type \/ uCall.key.end # uCall.type

\* C21 as stated: for a key text that lacks the BEGIN or the END delimiter of
\* the requested kind, validatePemKey throws an error whose message names the
\* missing PEM header, and which is not the error it throws for a text that
\* has both delimiters and a body that does not parse.
C21_MissingHeaderError ==
  (Validated /\ LacksDelimiter)
    => /\ uResult = Err("Invalid " \o uCall.type \o " format: Missing PEM headers")
       /\ uResult # validatePemKey(Pem(uCall.type, uCall.type, "garbage", 0, 0), uCall.type)

\* C22: validatePemKey returns true exactly for a text that has the BEGIN and
\* the END delimiter of the requested kind around a body that parses as an RSA
\* key of that kind; for every other text it throws and returns nothing.
C22_TrueOnlyForKeyOfKind ==
  Validated
    => LET wellFormed ==
             /\ uCall.key.begin = uCall.type /\ uCall.key.end = uCall.type
             /\ uCall.key.body.kind = (IF uCall.type = "PRIVATE KEY" THEN "private" ELSE "public")
       IN /\ wellFormed => uPc = "returned" /\ uResult = Ok(TRUE)
          /\ ~wellFormed => uPc = "threw" /\ IsErr(uResult)

C22_Witness ==
  /\ Validated /\ uPc = "threw"
  /\ uCall.type = "PRIVATE KEY"
  /\ uCall.key = Pem("PUBLIC KEY", "PUBLIC KEY", "public", 1, 1024)

\* C23 as stated: a key that is used for encryption, signing or verification
\* has a modulus of 1024 bits.
C23_Modulus1024 ==
  \A i \in 1..Len(requests) :
    LET r == requests[i] IN
      /\ "verify" \in Called(r) => config.paypayPublicKey.body.bits = 1024
      /\ "sign" \in Called(r) => config.privateKey.body.bits = 1024
      /\ ("privateEncrypt" \in Called(r) /\ r.params # <<>>)
           => config.privateKey.body.bits = 1024

\* The code units of the digits 0-9 and of the letters a-f.
HexCodes == (48..57) \cup (97..102)

\* C24: whatever 16 bytes the random source yields, generateRequestNo returns
\* a string of exactly 32 characters, hence of 6 to 32, each of them one of
\* 0-9 and a-f.
C24_RequestNoShape ==
  (uCall.fn = "generateRequestNo" /\ uPc = "returned")
    => /\ Len(uResult.ok) = 32
       /\ Len(uResult.ok) \in 6..32
       /\ \A k \in 1..Len(uResult.ok) :
            DOMAIN uResult.ok[k] = {"c"} /\ uResult.ok[k].c \in HexCodes

C24_Witness ==
  /\ uCall.fn = "generateRequestNo" /\ uPc = "returned"
  /\ uCall.randomBytes[1] = 0 /\ uCall.randomBytes[2] = 1 /\ uCall.randomBytes[16] = 15
  /\ SubSeq(uResult.ok, 1, 4) = Str("0001")

\* The number that the decimal digits at the positions from..to of a text
\* write, or -1 when one of them is no digit.
RECURSIVE Field(_, _, _)
Field(text, from, to) ==
  IF to < from THEN 0
  ELSE IF DOMAIN text[to] # {"c"} \/ text[to].c \notin 48..57 \/ Field(text, from, to - 1) < 0
       THEN -1
       ELSE 10 * Field(text, from, to - 1) + (text[to].c - 48)

\* The days from 1970-01-01 to a date of the Gregorian calendar.
DaysFromCivil(year, month, day) ==
  LET y == IF month <= 2 THEN year - 1 ELSE year
      era == y \div 400
      yoe == y - era * 400
      doy == (153 * (IF month > 2 THEN month - 3 ELSE month + 9) + 2) \div 5 + day - 1
      doe == yoe * 365 + yoe \div 4 - yoe \div 100 + doy
  IN era * 146097 + doe - 719468

\* C25: generateTimestamp returns 19 characters of the form
\* YYYY-MM-DD HH:mm:ss, which read as a date and a time of day are the instant
\* one hour after the clock reading in UTC, truncated to the second, whatever
\* the time zone of the host.
C25_TimestampUtcPlusOne ==
  (uCall.fn = "generateTimestamp" /\ uPc = "returned")
    => LET t == uResult.ok
           year == Field(t, 1, 4)
           month == Field(t, 6, 7)
           day == Field(t, 9, 10)
           hour == Field(t, 12, 13)
           minute == Field(t, 15, 16)
           second == Field(t, 18, 19)
       IN /\ Len(t) = 19
          /\ t[5] = Ch(45) /\ t[8] = Ch(45) /\ t[11] = Ch(32)
          /\ t[14] = Ch(58) /\ t[17] = Ch(58)
          /\ year >= 0 /\ month \in 1..12 /\ day \in 1..31
          /\ hour \in 0..23 /\ minute \in 0..59 /\ second \in 0..59
          /\ DaysFromCivil(year, month, day) * 86400 + hour * 3600 + minute * 60 + second
               = uCall.now.day * 86400 + uCall.now.ms \div 1000 + 3600

C25_Witness ==
  /\ uCall.fn = "generateTimestamp" /\ uPc = "returned"
  /\ uCall.now = [day |-> 19782, ms |-> 82800000] /\ uCall.tz = -300
  /\ uResult.ok = Str("2024-03-01 00:00:00")
====
